---- MODULE Spec2Model ----
(***************************************************************************)
(* The AMP HTTP proxy API (Hono server): the per-IP sliding-window rate    *)
(* limiter, the read-only admission filter of POST /query, the query       *)
(* forwarder, the cached dataset directory and GET /blocks/latest.         *)
(*                                                                         *)
(* Time is counted in ticks of the millisecond clock Date.now(); the       *)
(* configuration values are scaled down (they are environment-configured   *)
(* or plain constants of the program, and no code depends on their size).  *)
(*                                                                         *)
(* A text is a sequence of symbols.  A symbol is one character ("-", "/",  *)
(* "*", "\n", " ", "x", "1", "_", "\"", ",", the three-byte character      *)
(* "E3") or a whole keyword ("SELECT", "with", "EXPLAIN", "DROP"), which   *)
(* stands for its letters.                                                 *)
(***************************************************************************)
EXTENDS Integers, Sequences, FiniteSets, TLC

\* ------------------------------------------------------------- configuration

RATE_LIMIT_WINDOW_MS == 2
RATE_LIMIT_MAX == 2
MAX_QUERY_SIZE == 13
DATASETS_CACHE_TTL == 2
SWEEP_INTERVAL_MS == 3

\* --------------------------------------------------------------------- bounds

\* the clock runs from 0 to MaxTime
MaxTime == 2
\* requests accepted over a run of the server
MaxArrivals == 4
\* longest SQL text, in tokens, of the comment family of inputs
MaxSqlLen == 5
\* longest SQL text, in tokens, of the keyword family of inputs
MaxWordLen == 4
\* longest dataset identifier, in characters
MaxIdLen == 2
SweepHorizon == 8

\* ---------------------------------------------------------------------- texts

KeywordSyms == {"SELECT", "with", "EXPLAIN", "DROP"}

\* String.prototype.length of one symbol (UTF-16 code units)
SymUnits(c) ==
    CASE c = "SELECT" -> 6
      [] c = "with" -> 4
      [] c = "EXPLAIN" -> 7
      [] c = "DROP" -> 4
      [] OTHER -> 1

\* UTF-8 length of one symbol
SymBytes(c) == IF c = "E3" THEN 3 ELSE SymUnits(c)

RECURSIVE StrLength(_)
StrLength(s) == IF s = <<>> THEN 0 ELSE SymUnits(Head(s)) + StrLength(Tail(s))

RECURSIVE ByteLength(_)
ByteLength(s) == IF s = <<>> THEN 0 ELSE SymBytes(Head(s)) + ByteLength(Tail(s))

\* \s of a JavaScript regular expression, and what String.prototype.trim removes
IsSpace(c) == c \in {" ", "\n"}

\* \w of a JavaScript regular expression (ASCII letters, digits, underscore)
IsWordSym(c) == c \in KeywordSyms \cup {"x", "a", "1", "_"}

RECURSIVE TrimStart(_)
TrimStart(s) ==
    IF s # <<>> /\ IsSpace(Head(s)) THEN TrimStart(Tail(s)) ELSE s

RECURSIVE TrimEnd(_)
TrimEnd(s) ==
    IF s # <<>> /\ IsSpace(s[Len(s)]) THEN TrimEnd(SubSeq(s, 1, Len(s) - 1)) ELSE s

Trim(s) == TrimEnd(TrimStart(s))

\* the characters of a text of tokens: a comment marker is two characters
RECURSIVE Chars(_)
Chars(toks) ==
    IF toks = <<>> THEN <<>>
    ELSE LET t == Head(toks)
             cs == CASE t = "--" -> <<"-", "-">>
                     [] t = "/*" -> <<"/", "*">>
                     [] t = "*/" -> <<"*", "/">>
                     [] OTHER -> <<t>>
         IN cs \o Chars(Tail(toks))

\* first index >= i of s holding c, or 0
RECURSIVE IndexOf(_, _, _)
IndexOf(s, c, i) ==
    IF i > Len(s) THEN 0
    ELSE IF s[i] = c THEN i
    ELSE IndexOf(s, c, i + 1)

\* first index j >= i with s[j] = a and s[j+1] = b, or 0
RECURSIVE IndexOfPair(_, _, _, _)
IndexOfPair(s, a, b, i) ==
    IF i + 1 > Len(s) THEN 0
    ELSE IF s[i] = a /\ s[i + 1] = b THEN i
    ELSE IndexOfPair(s, a, b, i + 1)

\* s.replace(/^--[^\n]*\n/gm, ''): with the m flag ^ matches at the start of the
\* text and after a line terminator; a match runs from "--" through the next "\n"
RECURSIVE StripLineFrom(_, _)
StripLineFrom(s, i) ==
    IF i > Len(s) THEN <<>>
    ELSE LET atLineStart == i = 1 \/ s[i - 1] = "\n"
             dashes == i + 1 <= Len(s) /\ s[i] = "-" /\ s[i + 1] = "-"
             nl == IndexOf(s, "\n", i + 2)
         IN IF atLineStart /\ dashes /\ nl # 0
            THEN StripLineFrom(s, nl + 1)
            ELSE <<s[i]>> \o StripLineFrom(s, i + 1)

StripLineComments(s) == StripLineFrom(s, 1)

\* s.replace(/\/\*[\s\S]*?\*\//g, ''): from each "/*" through the nearest "*/"
\* that starts after it, left to right; an unterminated "/*" stays
RECURSIVE StripBlockFrom(_, _)
StripBlockFrom(s, i) ==
    IF i > Len(s) THEN <<>>
    ELSE LET open == i + 1 <= Len(s) /\ s[i] = "/" /\ s[i + 1] = "*"
             close == IndexOfPair(s, "*", "/", i + 2)
         IN IF open /\ close # 0
            THEN StripBlockFrom(s, close + 2)
            ELSE <<s[i]>> \o StripBlockFrom(s, i + 1)

StripBlockComments(s) == StripBlockFrom(s, 1)

\* const normalized = sql.trim().replace(...).replace(...).trim()
Normalized(sql) == Trim(StripBlockComments(StripLineComments(Trim(sql))))

ToUpper(c) == IF c = "with" THEN "WITH" ELSE c

\* /^KW\b/i.test(s): the keyword, then a word boundary
StartsWithKeyword(s, kw) ==
    /\ s # <<>>
    /\ ToUpper(s[1]) = kw
    /\ (Len(s) = 1 \/ ~IsWordSym(s[2]))

\* the test of handleQuery's 403
IsReadOnly(normalized) ==
    \/ StartsWithKeyword(normalized, "SELECT")
    \/ StartsWithKeyword(normalized, "WITH")
    \/ StartsWithKeyword(normalized, "EXPLAIN")

\* ------------------------------------------------------------ request inputs

\* every text of at most n symbols over the alphabet
RECURSIVE TextsUpTo(_, _)
TextsUpTo(alphabet, n) ==
    IF n = 0 THEN {<<>>}
    ELSE LET shorter == TextsUpTo(alphabet, n - 1)
         IN shorter \cup {Append(s, c) : s \in {t \in shorter : Len(t) = n - 1},
                                        c \in alphabet}

CommentTokens == {"--", "\n", "/*", "*/", " ", "SELECT", "DROP"}
WordTokens == {"SELECT", "with", "EXPLAIN", "DROP", "x", " ", "E3"}

\* the SQL texts a client may send: comments around a statement, and keywords
\* with word characters, blanks and multi-byte characters
CommentSql == {Chars(t) : t \in TextsUpTo(CommentTokens, MaxSqlLen)}
WordSql == TextsUpTo(WordTokens, MaxWordLen)
AllSql == CommentSql \cup WordSql

\* a request body: raw text, or a JSON object with optional sql and query strings
TextBody(s) ==
    [kind |-> "text", text |-> s, hasSql |-> FALSE, sql |-> <<>>,
     hasQuery |-> FALSE, query |-> <<>>]
JsonBody(hasSql, sql, hasQuery, query) ==
    [kind |-> "json", text |-> <<>>, hasSql |-> hasSql, sql |-> sql,
     hasQuery |-> hasQuery, query |-> query]

JsonFieldTexts == {<<>>, <<" ">>, <<"SELECT">>, <<"DROP">>}
JsonBodies ==
    {JsonBody(TRUE, s, TRUE, q) : s \in JsonFieldTexts, q \in JsonFieldTexts}
    \cup {JsonBody(TRUE, s, FALSE, <<>>) : s \in JsonFieldTexts}
    \cup {JsonBody(FALSE, <<>>, TRUE, q) : q \in JsonFieldTexts}
    \cup {JsonBody(FALSE, <<>>, FALSE, <<>>)}

AllBodies == {TextBody(s) : s \in AllSql} \cup JsonBodies

\* a body declared application/json that is not an object with string fields:
\* text that is not JSON ("json_syntax"), the JSON value null ("json_null"), a
\* JSON number, string or array ("json_scalar"), an object whose sql field is
\* a number other than 0 ("json_sql_number")
MalformedBody(k) ==
    [kind |-> k, text |-> <<>>, hasSql |-> FALSE, sql |-> <<>>,
     hasQuery |-> FALSE, query |-> <<>>]
MalformedBodies ==
    {MalformedBody(k) : k \in {"json_syntax", "json_null", "json_scalar", "json_sql_number"}}

\* the bodies of the concurrent server's requests: one forwarded, one refused
SampleBodies == {TextBody(<<"SELECT", " ", "x">>), JsonBody(TRUE, <<"DROP">>, FALSE, <<>>)}

\* the x-forwarded-for header of a request
NoHeader == [present |-> FALSE, text |-> <<>>]
Header(s) == [present |-> TRUE, text |-> s]
SampleHeaders == {NoHeader, Header(<<"a", ",", "x">>)}

\* forwarded-for headers: absent, blank, one address with spaces around it,
\* lists whose first element is an address or is empty, and the word unknown
\* itself
HeaderTexts ==
    {<<" ">>, <<" ", "a", " ">>, <<"a", ",", "x">>, <<",", "a">>, <<"unknown">>}
AllHeaders == {NoHeader} \cup {Header(t) : t \in HeaderTexts}

\* the request line of a request
Methods == {"GET", "POST", "OPTIONS", "DELETE"}
Paths == {"/health", "/status", "/query", "/", "/blocks/latest", "/other"}

\* what the indexer answers to one POST of a statement: a 2xx response with a
\* body, a non-2xx response with a body, or no response (fetch rejects)
UpstreamBodies == {<<>>, <<"ROW5">>, <<"ROW5", "\n", "ROW0">>}
UpstreamReplies ==
    {[kind |-> "ok", body |-> b] : b \in UpstreamBodies}
    \cup {[kind |-> "http_error", body |-> <<"ERR">>],
          [kind |-> "network_error", body |-> <<>>]}
SampleReplies ==
    {[kind |-> "ok", body |-> <<"ROW5">>], [kind |-> "network_error", body |-> <<>>]}

\* the dataset query parameter of GET /blocks/latest
IdChars == {"a", "1", "\""}
AllIds == TextsUpTo(IdChars, MaxIdLen)
NoParam == [present |-> FALSE, text |-> <<>>]
Param(s) == [present |-> TRUE, text |-> s]
AllParams == {NoParam} \cup {Param(s) : s \in AllIds}

\* what the admin API answers to GET /datasets: no response (fetch rejects), a
\* non-2xx response, a 2xx body that is not JSON ("malformed"), a 2xx JSON body
\* that is not an array ("not_array": an object), or a JSON array.  An
\* item of the array is an object with a name, an object with only an id, an
\* object whose name is a number, a bare string, or null
AdminNames == {<<"a">>, <<"a", "1">>, <<"\"">>}
AdminItems ==
    {[kind |-> k, text |-> n] : k \in {"name", "id", "string"}, n \in AdminNames}
    \cup {[kind |-> "number", text |-> <<>>], [kind |-> "null", text |-> <<>>]}
AdminLists == {<<>>} \cup {<<i>> : i \in AdminItems}
                    \cup {<<i, j>> : i, j \in {x \in AdminItems : x.kind = "name"}}
AdminReplies ==
    {[kind |-> k, data |-> <<>>] :
        k \in {"network_error", "http_error", "malformed", "not_array"}}
    \cup {[kind |-> "ok", data |-> d] : d \in AdminLists}

\* what the admin API answers to GET /jobs
JobsReplies ==
    {[kind |-> k, data |-> <<>>] :
        k \in {"network_error", "http_error", "malformed", "not_array"}}
    \cup {[kind |-> "ok", data |-> d] : d \in {<<>>, <<"job">>}}

\* the indexer's answers to the MAX(block_num) statement: rows of one latest
\* field (5, 0, "7", null), a line that is not JSON, failures with a body
MarkerBodies ==
    {<<>>, <<"\n">>, <<"ROW5">>, <<"ROW0">>, <<"ROWSTR7">>, <<"ROWNULL">>,
     <<"ROW5", "\n", "ROW0">>, <<"BAD">>}
MarkerReplies ==
    {[kind |-> "ok", body |-> b] : b \in MarkerBodies}
    \cup {[kind |-> "http_error", body |-> b] : b \in {<<"ERR">>, <<"Invalid">>}}
    \cup {[kind |-> "network_error", body |-> <<>>]}

\* the inputs of the concurrent directory: a listed and an unlisted dataset,
\* the admin API down or listing one dataset, the indexer down or answering
SampleParams == {Param(<<"a">>), Param(<<"a", "1">>)}
SampleAdminReplies ==
    {[kind |-> "network_error", data |-> <<>>],
     [kind |-> "ok", data |-> <<[kind |-> "name", text |-> <<"a">>]>>]}
SampleMarkerReplies ==
    {[kind |-> "ok", body |-> <<"ROW5">>], [kind |-> "network_error", body |-> <<>>]}

\* the inputs of the whole server: a forwarded statement and a body that is
\* not JSON, a valid and an invalid dataset, a known path with the wrong method
\* and a preflight
ServerBodies == {TextBody(<<"SELECT", " ", "x">>), MalformedBody("json_syntax")}
ServerParams == {Param(<<"a">>), Param(<<"\"">>)}
ServerMethods == {"GET", "OPTIONS"}
ServerPaths == {"/query"}
ServerAdminReplies ==
    {[kind |-> "malformed", data |-> <<>>],
     [kind |-> "ok", data |-> <<[kind |-> "name", text |-> <<"a">>]>>]}
ServerMarkerReplies ==
    {[kind |-> "ok", body |-> <<"ROW5">>], [kind |-> "http_error", body |-> <<"ERR">>]}

\* ---------------------------------------------------------------------- state

Slots == {1, 2}

VARIABLES
    clock,                \* Date.now()
    rateLimitMap,         \* Map<string, number[]>: a function on its keys
    knownDatasets,        \* Set<string>
    datasetsLastFetched,  \* number
    req,                  \* the request of each connection slot and its response
    rateLimitLog,         \* history: every rateLimit call, in order
    arrivals,             \* history: requests accepted so far
    upstream,             \* the collaborators' answers, where they are steady
    nextSweep             \* the time the cleanup interval is next due

vars == <<clock, rateLimitMap, knownDatasets, datasetsLastFetched, req,
          rateLimitLog, arrivals, upstream, nextSweep>>

NoReply == [kind |-> "none", body |-> <<>>]
NoAdminReply == [kind |-> "none", data |-> <<>>]

\* the collaborators when each call draws its own answer
NoUpstream == [admin |-> NoAdminReply, marker |-> NoReply]

\* a slot with no request.  sent: the statements this request has posted to the
\* indexer; adminCalls: the fetches of /datasets refreshDatasets made for it;
\* call: the place of its rateLimit call in rateLimitLog; reply: the indexer's
\* answer it received; adminReply, jobsReply: the admin API's answers it
\* received; cached: the cache when it called refreshDatasets; datasets: the
\* set refreshDatasets returned to it; error: the
\* error its handler caught; current, todo, got, markers: the loop of /health
\* (the dataset being queried, those still to query, the indexer's answer for
\* each dataset queried and datasetStatus); statusText, datasetsField,
\* jobsField: fields of the JSON response; header: its x-forwarded-for
\* header; method, path: its request line, kept for the requests no route
\* matches
Idle ==
    [route |-> "none", pc |-> "idle", ip |-> <<>>, body |-> TextBody(<<>>),
     dataset |-> <<>>, now |-> 0, sent |-> <<>>, adminCalls |-> 0,
     status |-> 0, ctype |-> "none", respBody |-> <<>>, latestBlock |-> "none",
     call |-> 0, reply |-> NoReply,
     adminReply |-> NoAdminReply, jobsReply |-> NoAdminReply,
     cached |-> {}, datasets |-> {}, error |-> "none",
     current |-> <<>>, todo |-> {}, got |-> <<>>, markers |-> <<>>,
     statusText |-> "none", datasetsField |-> "none", jobsField |-> "none",
     header |-> NoHeader, method |-> "none", path |-> "none"]

\* --------------------------------------------------------------- rate limiter

\* the bucket without the split: the whole header, trimmed
ClientIpWholeHeader(h) ==
    IF ~h.present THEN <<"unknown">>
    ELSE IF Trim(h.text) = <<>> THEN <<"unknown">> ELSE Trim(h.text)

\* c.req.header('x-forwarded-for')?.split(',')[0]?.trim() || 'unknown'
ClientIp(h) ==
    IF ~h.present THEN <<"unknown">>
    ELSE LET comma == IndexOf(h.text, ",", 1)
             first == IF comma = 0 THEN h.text ELSE SubSeq(h.text, 1, comma - 1)
         IN IF Trim(first) = <<>> THEN <<"unknown">> ELSE Trim(first)

\* rateLimitMap.get(ip) || []
Timestamps(map, ip) == IF ip \in DOMAIN map THEN map[ip] ELSE <<>>

\* Recent with the window closed at its old end (<= for <)
RecentInclusive(timestamps, now) ==
    SelectSeq(timestamps, LAMBDA t : now - t <= RATE_LIMIT_WINDOW_MS)

\* timestamps.filter(t => now - t < RATE_LIMIT_WINDOW_MS)
Recent(timestamps, now) ==
    SelectSeq(timestamps, LAMBDA t : now - t < RATE_LIMIT_WINDOW_MS)

\* rateLimit writing back a list read before another call's write: the list
\* it stores holds only its own timestamp
rateLimitStaleWrite(map, ip, now) ==
    LET recent == Recent(Timestamps(map, ip), now)
    IN IF Len(recent) >= RATE_LIMIT_MAX
       THEN [allowed |-> FALSE, map |-> map]
       ELSE [allowed |-> TRUE,
             map |-> [k \in DOMAIN map \cup {ip} |->
                         IF k = ip THEN <<now>> ELSE map[k]]]

\* rateLimit counting the recent timestamps but storing the whole list
rateLimitUnpruned(map, ip, now) ==
    LET recent == Recent(Timestamps(map, ip), now)
    IN IF Len(recent) >= RATE_LIMIT_MAX
       THEN [allowed |-> FALSE, map |-> map]
       ELSE [allowed |-> TRUE,
             map |-> [k \in DOMAIN map \cup {ip} |->
                         IF k = ip THEN Append(Timestamps(map, ip), now) ELSE map[k]]]

\* rateLimit pruning every client's list when it stores the caller's
rateLimitPruningAll(map, ip, now) ==
    LET recent == Recent(Timestamps(map, ip), now)
        kept == {k \in DOMAIN map : Recent(map[k], now) # <<>>}
        swept == [k \in kept |-> Recent(map[k], now)]
    IN IF Len(recent) >= RATE_LIMIT_MAX
       THEN [allowed |-> FALSE, map |-> map]
       ELSE [allowed |-> TRUE,
             map |-> [k \in DOMAIN swept \cup {ip} |->
                         IF k = ip THEN Append(recent, now) ELSE swept[k]]]

\* rateLimit(ip): whether the request is allowed, and the map afterwards
rateLimit(map, ip, now) ==
    LET recent == Recent(Timestamps(map, ip), now)
    IN IF Len(recent) >= RATE_LIMIT_MAX
       THEN [allowed |-> FALSE, map |-> map]
       ELSE [allowed |-> TRUE,
             map |-> [k \in DOMAIN map \cup {ip} |->
                         IF k = ip THEN Append(recent, now) ELSE map[k]]]

\* the callback clearing the map: entries with recent timestamps go too
SweptClearingAll(map, now) == [k \in {} |-> <<>>]

\* the callback without the delete: an entry left empty stays in the map
SweptKeepingEmpty(map, now) ==
    [k \in DOMAIN map |-> Recent(map[k], now)]

\* the setInterval callback: prune every entry, delete the empty ones
Swept(map, now) ==
    LET kept == {k \in DOMAIN map : Recent(map[k], now) # <<>>}
    IN [k \in kept |-> Recent(map[k], now)]

\* ---------------------------------------------------------------- POST /query

\* sql = body.sql || body.query (JSON), or the raw text
BodySql(b) ==
    IF b.kind = "text" THEN [defined |-> TRUE, text |-> b.text]
    ELSE IF b.hasSql /\ b.sql # <<>> THEN [defined |-> TRUE, text |-> b.sql]
    ELSE IF b.hasQuery THEN [defined |-> TRUE, text |-> b.query]
    ELSE [defined |-> FALSE, text |-> <<>>]

\* the missing-SQL test without the trim
IsMissingSqlNoTrim(s) == ~s.defined \/ s.text = <<>>

\* if (!sql?.trim())
IsMissingSql(s) == ~s.defined \/ Trim(s.text) = <<>>

\* if (sql.length > MAX_QUERY_SIZE)
IsTooLarge(text) == StrLength(text) > MAX_QUERY_SIZE

\* the checks with the read-only test before the size test
AdmissionFilterFirst(b) ==
    LET s == BodySql(b)
    IN IF IsMissingSql(s) THEN 400
       ELSE IF ~IsReadOnly(Normalized(s.text)) THEN 403
       ELSE IF IsTooLarge(s.text) THEN 413
       ELSE 0

\* the checks with a read-only test that accepts any leading keyword
AdmissionNoFilter(b) ==
    LET s == BodySql(b)
    IN IF IsMissingSql(s) THEN 400
       ELSE IF IsTooLarge(s.text) THEN 413
       ELSE IF Normalized(s.text) # <<>> /\ Normalized(s.text)[1] \notin KeywordSyms
       THEN 403
       ELSE 0

\* the checks of handleQuery between reading the body and queryAmp(sql):
\* the status of the first one that fails, or 0 when the statement is forwarded
Admission(b) ==
    LET s == BodySql(b)
    IN IF IsMissingSql(s) THEN 400
       ELSE IF IsTooLarge(s.text) THEN 413
       ELSE IF ~IsReadOnly(Normalized(s.text)) THEN 403
       ELSE 0

\* queryAmp(normalized) for queryAmp(sql)
ForwardedNormalized(b) == Normalized(BodySql(b).text)

\* what queryAmp(sql) passes to fetch as the request body
ForwardedText(b) == BodySql(b).text

\* handleQuery up to its first await: the bucket, rateLimit, the 429
HandleQueryStart(r, headers, bodies) ==
    /\ req[r].pc \in {"idle", "done"}
    /\ arrivals < MaxArrivals
    /\ \E h \in headers, b \in bodies :
          LET ip == ClientIp(h)
              rl == rateLimit(rateLimitMap, ip, clock)
              fresh == [Idle EXCEPT !.route = "query", !.ip = ip, !.body = b,
                                   !.header = h,
                                   !.call = Len(rateLimitLog) + 1]
          IN /\ rateLimitMap' = rl.map
             /\ rateLimitLog' =
                    Append(rateLimitLog, [ip |-> ip, t |-> clock, allowed |-> rl.allowed,
                                          header |-> h])
             /\ req' = [req EXCEPT ![r] =
                    IF rl.allowed
                    THEN [fresh EXCEPT !.pc = "body"]
                    ELSE [fresh EXCEPT !.pc = "done", !.status = 429,
                                       !.ctype = "application/json",
                                       !.respBody = <<"error">>]]
    /\ arrivals' = arrivals + 1
    /\ UNCHANGED <<clock, knownDatasets, datasetsLastFetched,
                   upstream, nextSweep>>

\* await c.req.json() rejects on text that is not JSON; body.sql throws on
\* null; sql?.trim() throws when sql is a number (trim is not a function)
BodyThrows(b) == b.kind \in {"json_syntax", "json_null", "json_sql_number"}

\* an exception that leaves a handler and is answered by nobody: the
\* connection stays open without a response
UncaughtHanging(q) == [q EXCEPT !.pc = "crashed", !.error = "uncaught"]

\* an exception that leaves a handler: Hono's default error handler answers
\* c.text('Internal Server Error', 500)
Uncaught(q) ==
    [q EXCEPT !.pc = "done", !.status = 500, !.ctype = "text/plain",
              !.error = "uncaught", !.respBody = <<"Internal Server Error">>]

\* handleQuery giving the slot back when it refuses the statement: the 400,
\* 413 and 403 take the client's newest timestamp out of the ledger
HandleQueryBodyRefunding(r) ==
    /\ req[r].route = "query"
    /\ req[r].pc = "body"
    /\ LET code == Admission(req[r].body)
           ip == req[r].ip
           stored == Timestamps(rateLimitMap, ip)
       IN /\ req' = [req EXCEPT ![r] =
                 IF BodyThrows(req[r].body) THEN Uncaught(@)
                 ELSE IF code # 0
                 THEN [@ EXCEPT !.pc = "done", !.status = code,
                                !.ctype = "application/json", !.respBody = <<"error">>]
                 ELSE [@ EXCEPT !.pc = "upstream",
                                !.sent = Append(@, ForwardedText(req[r].body))]]
          /\ rateLimitMap' =
                 IF ~BodyThrows(req[r].body) /\ code # 0 /\ stored # <<>>
                 THEN [rateLimitMap EXCEPT ![ip] = SubSeq(stored, 1, Len(stored) - 1)]
                 ELSE rateLimitMap
    /\ UNCHANGED <<clock, knownDatasets, datasetsLastFetched,
                   rateLimitLog, arrivals,
                   upstream, nextSweep>>

\* handleQuery from the body to queryAmp's fetch: 400, 413, 403 or the forward
HandleQueryBody(r) ==
    /\ req[r].route = "query"
    /\ req[r].pc = "body"
    /\ LET code == Admission(req[r].body)
       IN req' = [req EXCEPT ![r] =
              IF BodyThrows(req[r].body) THEN Uncaught(@)
              ELSE IF code # 0
              THEN [@ EXCEPT !.pc = "done", !.status = code,
                             !.ctype = "application/json", !.respBody = <<"error">>]
              ELSE [@ EXCEPT !.pc = "upstream",
                             !.sent = Append(@, ForwardedText(req[r].body))]]
    /\ UNCHANGED <<clock, rateLimitMap, knownDatasets, datasetsLastFetched,
                   rateLimitLog, arrivals,
                   upstream, nextSweep>>

\* queryAmp(sql) after its fetch settles: the body text, or a throw
QueryAmp(reply) ==
    IF reply.kind = "ok"
    THEN [threw |-> FALSE, text |-> reply.body]
    ELSE [threw |-> TRUE, text |-> reply.body]

\* handleQuery posting the statement again when queryAmp throws
HandleQueryReplyRetrying(r, replies) ==
    /\ req[r].route = "query"
    /\ req[r].pc = "upstream"
    /\ \E reply \in replies :
          LET result == QueryAmp(reply)
          IN req' = [req EXCEPT ![r] =
                 IF result.threw /\ Len(@.sent) < 2
                 THEN [@ EXCEPT !.sent = Append(@, @[1])]
                 ELSE [@ EXCEPT !.pc = "done", !.status = IF result.threw THEN 502 ELSE 200,
                                !.reply = reply,
                                !.ctype = "application/x-ndjson",
                                !.respBody = result.text]]
    /\ UNCHANGED <<clock, rateLimitMap, knownDatasets, datasetsLastFetched,
                   rateLimitLog, arrivals,
                   upstream, nextSweep>>

\* handleQuery after queryAmp: the 200 with the upstream text, or the 502
HandleQueryReply(r, replies) ==
    /\ req[r].route = "query"
    /\ req[r].pc = "upstream"
    /\ \E reply \in replies :
          LET result == QueryAmp(reply)
          IN req' = [req EXCEPT ![r] =
                 IF result.threw
                 THEN [@ EXCEPT !.pc = "done", !.status = 502, !.reply = reply,
                                !.ctype = "application/json",
                                !.respBody = <<"error">>]
                 ELSE [@ EXCEPT !.pc = "done", !.status = 200, !.reply = reply,
                                !.ctype = "application/x-ndjson",
                                !.respBody = result.text]]
    /\ UNCHANGED <<clock, rateLimitMap, knownDatasets, datasetsLastFetched,
                   rateLimitLog, arrivals,
                   upstream, nextSweep>>

\* ---------------------------------------------------------- dataset directory

\* the pattern without its end anchor: /^[a-zA-Z_][a-zA-Z0-9_]*/
ValidIdentifierPrefix(id) == id # <<>> /\ id[1] \in {"a", "x", "_"}

\* /^[a-zA-Z_][a-zA-Z0-9_]*$/.test(dataset)
IsIdStart(c) == c \in {"a", "x", "_"}
IsIdPart(c) == c \in {"a", "x", "_", "1"}
ValidIdentifier(id) ==
    /\ id # <<>>
    /\ IsIdStart(id[1])
    /\ \A i \in 2..Len(id) : IsIdPart(id[i])

\* the cache test without the TTL
CacheIsFreshForever(known, lastFetched, now) == known # {}

\* refreshDatasets returns the cache without a fetch
CacheIsFresh(known, lastFetched, now) ==
    known # {} /\ now - lastFetched < DATASETS_CACHE_TTL

\* data.map(d => d.name ?? d.id ?? d).filter(n => typeof n === 'string');
\* reading a property of null throws
NamesThrow(data) == \E i \in DOMAIN data : data[i].kind = "null"
Names(data) ==
    {data[i].text : i \in {j \in DOMAIN data : data[j].kind \in {"name", "id", "string"}}}

\* a refresh that installs whatever a successful read lists, an empty list too
RefreshedInstallingEmpty(known, lastFetched, reply, now) ==
    IF reply.kind = "ok" /\ ~NamesThrow(reply.data)
    THEN [known |-> Names(reply.data), lastFetched |-> now]
    ELSE [known |-> known, lastFetched |-> lastFetched]

\* a refresh that empties the cache when the read fails
RefreshedClearing(known, lastFetched, reply, now) ==
    IF reply.kind = "ok" /\ ~NamesThrow(reply.data) /\ Names(reply.data) # {}
    THEN [known |-> Names(reply.data), lastFetched |-> now]
    ELSE [known |-> {}, lastFetched |-> lastFetched]

\* a refresh that adds the names to the cache instead of replacing it
RefreshedMerging(known, lastFetched, reply, now) ==
    IF reply.kind = "ok" /\ ~NamesThrow(reply.data) /\ Names(reply.data) # {}
    THEN [known |-> known \cup Names(reply.data), lastFetched |-> now]
    ELSE [known |-> known, lastFetched |-> lastFetched]

\* refreshDatasets after its fetch settles, for the call that read the clock
\* at now: the cache and its timestamp afterwards
Refreshed(known, lastFetched, reply, now) ==
    IF reply.kind = "ok" /\ ~NamesThrow(reply.data) /\ Names(reply.data) # {}
    THEN [known |-> Names(reply.data), lastFetched |-> now]
    ELSE [known |-> known, lastFetched |-> lastFetched]

\* the test without datasets.size > 0
IsUnknownDatasetStrict(datasets, id) == id \notin datasets

\* validateDataset after refreshDatasets: the Unknown dataset error
IsUnknownDataset(datasets, id) == datasets # {} /\ id \notin datasets

\* ---------------------------------------------------------- GET /blocks/latest

\* the statement without the quotes around the dataset
MarkerSqlUnquoted(dataset) ==
    <<"SELECT", " ", "MAX(block_num)", " ", "as", " ", "latest", " ", "FROM", " ">>
    \o dataset \o <<".blocks">>

\* `SELECT MAX(block_num) as latest FROM "${dataset}".blocks`
MarkerSql(dataset) ==
    <<"SELECT", " ", "MAX(block_num)", " ", "as", " ", "latest", " ", "FROM", " ", "\"">>
    \o dataset \o <<"\"", ".blocks">>

\* text.trim().split('\n').filter(Boolean): the lines of a body
RECURSIVE Lines(_)
Lines(text) ==
    IF text = <<>> THEN <<>>
    ELSE LET nl == IndexOf(text, "\n", 1)
         IN IF nl = 0 THEN <<text>>
            ELSE IF nl = 1 THEN Lines(Tail(text))
            ELSE <<SubSeq(text, 1, nl - 1)>> \o Lines(SubSeq(text, nl + 1, Len(text)))

\* JSON.parse of one line: a row object, or a throw
IsRow(line) == line \in {<<"ROW5">>, <<"ROW0">>, <<"ROWSTR7">>, <<"ROWNULL">>}

\* queryAmpJson after queryAmp returned text: the rows, or a throw of JSON.parse
QueryAmpJson(text) ==
    LET lines == Lines(Trim(text))
    IN IF \E i \in DOMAIN lines : ~IsRow(lines[i])
       THEN [threw |-> TRUE, rows |-> <<>>]
       ELSE [threw |-> FALSE, rows |-> lines]

\* rows[0]?.latest ? Number(rows[0].latest) : null
LatestBlock(rows) ==
    IF rows = <<>> THEN "null"
    ELSE CASE rows[1] = <<"ROW5">> -> "5"
           [] rows[1] = <<"ROWSTR7">> -> "7"
           [] OTHER -> "null"

\* the message of the Error queryAmp throws on a non-2xx response holds the
\* response body; the catch of the route answers 400 when the message includes
\* 'Invalid', 'Unknown' or 'Missing'
MessageLooksInvalid(reply) ==
    /\ reply.kind = "http_error"
    /\ \E i \in DOMAIN reply.body : reply.body[i] \in {"Invalid", "Unknown", "Missing"}

\* the route looking the identifier up only in a set it has just fetched: an
\* identifier resolved from the cache is taken as known
LatestValidatedOnFetchOnly(q, datasets) ==
    IF q.adminCalls > 0 /\ IsUnknownDataset(datasets, q.dataset)
    THEN [q EXCEPT !.datasets = datasets, !.error = "Unknown dataset",
                   !.pc = "done", !.status = 400, !.ctype = "application/json",
                   !.respBody = <<"error">>]
    ELSE [q EXCEPT !.datasets = datasets,
                   !.pc = "upstream", !.sent = Append(@, MarkerSql(q.dataset))]

\* the route after validateDataset resolved the directory to datasets: the 400
\* of an unknown dataset, or the fetch of the marker statement
LatestValidated(q, datasets) ==
    IF IsUnknownDataset(datasets, q.dataset)
    THEN [q EXCEPT !.datasets = datasets, !.error = "Unknown dataset",
                   !.pc = "done", !.status = 400, !.ctype = "application/json",
                   !.respBody = <<"error">>]
    ELSE [q EXCEPT !.datasets = datasets,
                   !.pc = "upstream", !.sent = Append(@, MarkerSql(q.dataset))]

\* the route up to its first fetch: the missing parameter, the identifier
\* pattern, the cache hit of refreshDatasets or its fetch of /datasets
HandleLatestStart(r, params) ==
    /\ req[r].pc \in {"idle", "done"}
    /\ arrivals < MaxArrivals
    /\ \E p \in params :
          LET fresh == [Idle EXCEPT !.route = "latest", !.dataset = p.text]
              refused == [fresh EXCEPT !.pc = "done", !.status = 400,
                                       !.ctype = "application/json",
                                       !.respBody = <<"error">>]
          IN req' = [req EXCEPT ![r] =
                 IF ~p.present \/ p.text = <<>> THEN refused
                 ELSE IF ~ValidIdentifier(p.text)
                 THEN [refused EXCEPT !.error = "Invalid dataset identifier"]
                 ELSE IF CacheIsFresh(knownDatasets, datasetsLastFetched, clock)
                 THEN LatestValidated([fresh EXCEPT !.cached = knownDatasets],
                                      knownDatasets)
                 ELSE [fresh EXCEPT !.pc = "admin", !.now = clock,
                                    !.cached = knownDatasets,
                                    !.adminCalls = @ + 1]]
    /\ arrivals' = arrivals + 1
    /\ UNCHANGED <<clock, rateLimitMap, knownDatasets, datasetsLastFetched,
                   rateLimitLog,
                   upstream, nextSweep>>

\* refreshDatasets after its fetch, then the rest of validateDataset
HandleLatestRefreshed(r, adminReplies) ==
    /\ req[r].route = "latest"
    /\ req[r].pc = "admin"
    /\ \E reply \in adminReplies :
          LET cache == Refreshed(knownDatasets, datasetsLastFetched, reply, req[r].now)
          IN /\ knownDatasets' = cache.known
             /\ datasetsLastFetched' = cache.lastFetched
             /\ req' = [req EXCEPT ![r] =
                    LatestValidated([@ EXCEPT !.adminReply = reply], cache.known)]
    /\ UNCHANGED <<clock, rateLimitMap, rateLimitLog, arrivals,
                   upstream, nextSweep>>

\* the route after queryAmpJson: the 200 with the marker, or the catch
HandleLatestReply(r, replies) ==
    /\ req[r].route = "latest"
    /\ req[r].pc = "upstream"
    /\ \E reply \in replies :
          LET result == QueryAmp(reply)
              parsed == QueryAmpJson(result.text)
          IN req' = [req EXCEPT ![r] =
                 IF result.threw \/ parsed.threw
                 THEN [@ EXCEPT !.pc = "done", !.reply = reply,
                                !.error = IF reply.kind = "network_error" THEN "fetch failed"
                                          ELSE IF result.threw THEN "AMP query failed"
                                          ELSE "JSON.parse",
                                !.status = IF MessageLooksInvalid(reply) THEN 400 ELSE 502,
                                !.ctype = "application/json",
                                !.respBody = <<"error">>]
                 ELSE [@ EXCEPT !.pc = "done", !.status = 200, !.reply = reply,
                                !.ctype = "application/json",
                                !.latestBlock = LatestBlock(parsed.rows)]]
    /\ UNCHANGED <<clock, rateLimitMap, knownDatasets, datasetsLastFetched,
                   rateLimitLog, arrivals,
                   upstream, nextSweep>>

\* ------------------------------------------------------------------ GET /health

\* the value of a marker as a number
MarkerNumber(m) == CASE m = "5" -> 5 [] m = "7" -> 7 [] OTHER -> 0

\* the minimum for the maximum
LatestOverallMin(markers) ==
    LET blockValues == {markers[d] : d \in DOMAIN markers} \ {"null"}
    IN IF blockValues = {} THEN "null"
       ELSE CHOOSE m \in blockValues :
                \A n \in blockValues : MarkerNumber(m) <= MarkerNumber(n)

\* blockValues.length > 0 ? Math.max(...blockValues) : null
LatestOverall(markers) ==
    LET blockValues == {markers[d] : d \in DOMAIN markers} \ {"null"}
    IN IF blockValues = {} THEN "null"
       ELSE CHOOSE m \in blockValues :
                \A n \in blockValues : MarkerNumber(n) <= MarkerNumber(m)

\* a marker query whose failure is not caught: the route's catch answers 503
HealthMarkerAborting(reply) ==
    LET result == QueryAmp(reply)
        parsed == QueryAmpJson(result.text)
    IN IF result.threw \/ parsed.threw THEN "throw" ELSE LatestBlock(parsed.rows)

\* queryAmpJson(...).catch(() => []), then
\* datasetStatus[ds] = rows[0]?.latest ? Number(rows[0].latest) : null
HealthMarker(reply) ==
    LET result == QueryAmp(reply)
        parsed == QueryAmpJson(result.text)
    IN IF result.threw \/ parsed.threw THEN LatestBlock(<<>>)
       ELSE LatestBlock(parsed.rows)

\* the for loop over the set: the response when no dataset is left, else the
\* fetch of the marker statement of the next dataset (the set's iteration order
\* is the admin list's order, which the cache does not keep: any next one)
HealthLoop(q) ==
    IF q.todo = {}
    THEN {[q EXCEPT !.pc = "done", !.status = 200, !.ctype = "application/json",
                    !.statusText = "ok", !.current = <<>>,
                    !.latestBlock = LatestOverall(q.markers)]}
    ELSE {[q EXCEPT !.pc = "upstream", !.current = ds, !.todo = @ \ {ds},
                    !.sent = Append(@, MarkerSql(ds))] : ds \in q.todo}

\* the route after refreshDatasets returned datasets
HealthResolved(q, datasets) ==
    HealthLoop([q EXCEPT !.datasets = datasets, !.todo = datasets])

\* the route up to its first fetch: the cache hit of refreshDatasets or its
\* fetch of /datasets
HandleHealthStart(r) ==
    /\ req[r].pc \in {"idle", "done"}
    /\ arrivals < MaxArrivals
    /\ LET fresh == [Idle EXCEPT !.route = "health", !.cached = knownDatasets]
       IN IF CacheIsFresh(knownDatasets, datasetsLastFetched, clock)
          THEN \E q \in HealthResolved(fresh, knownDatasets) :
                  req' = [req EXCEPT ![r] = q]
          ELSE req' = [req EXCEPT ![r] =
                          [fresh EXCEPT !.pc = "admin", !.now = clock,
                                        !.adminCalls = @ + 1]]
    /\ arrivals' = arrivals + 1
    /\ UNCHANGED <<clock, rateLimitMap, knownDatasets, datasetsLastFetched,
                   rateLimitLog,
                   upstream, nextSweep>>

\* refreshDatasets after its fetch, then the start of the loop
HandleHealthRefreshed(r, adminReplies) ==
    /\ req[r].route = "health"
    /\ req[r].pc = "admin"
    /\ \E reply \in adminReplies :
          LET cache == Refreshed(knownDatasets, datasetsLastFetched, reply, req[r].now)
          IN /\ knownDatasets' = cache.known
             /\ datasetsLastFetched' = cache.lastFetched
             /\ \E q \in HealthResolved([req[r] EXCEPT !.adminReply = reply],
                                         cache.known) :
                    req' = [req EXCEPT ![r] = q]
    /\ UNCHANGED <<clock, rateLimitMap, rateLimitLog, arrivals,
                   upstream, nextSweep>>

\* the loop after one marker query settles: its entry of datasetStatus, then
\* the next dataset or the response
HandleHealthMarker(r, replies) ==
    /\ req[r].route = "health"
    /\ req[r].pc = "upstream"
    /\ \E reply \in replies :
          LET ds == req[r].current
              marker == HealthMarker(reply)
              keys == DOMAIN req[r].markers \cup {ds}
              q == [req[r] EXCEPT
                       !.got = [d \in keys |-> IF d = ds THEN reply ELSE @[d]],
                       !.markers = [d \in keys |-> IF d = ds THEN marker ELSE @[d]]]
          IN IF marker = "throw"
             THEN req' = [req EXCEPT ![r] =
                      [req[r] EXCEPT !.pc = "done", !.status = 503,
                                     !.ctype = "application/json",
                                     !.statusText = "error", !.current = <<>>,
                                     !.error = "AMP query failed",
                                     !.respBody = <<"error">>]]
             ELSE \E n \in HealthLoop(q) : req' = [req EXCEPT ![r] = n]
    /\ UNCHANGED <<clock, rateLimitMap, knownDatasets, datasetsLastFetched,
                   rateLimitLog, arrivals,
                   upstream, nextSweep>>

\* ------------------------------------------------------------------ GET /status

\* fetch(...).catch(() => null), then res?.ok ? await res.json() : null: the
\* field, or the throw of res.json() on a 2xx body that is not JSON
StatusField(reply) ==
    CASE reply.kind \in {"network_error", "http_error"} -> "null"
      [] reply.kind = "malformed" -> "throw"
      [] reply.kind = "not_array" -> "object"
      [] OTHER -> "array"

\* the route behind the rate limiter of handleQuery
HandleStatusStartLimited(r) ==
    /\ req[r].pc \in {"idle", "done"}
    /\ arrivals < MaxArrivals
    /\ LET rl == rateLimit(rateLimitMap, <<"unknown">>, clock)
           fresh == [Idle EXCEPT !.route = "status"]
       IN /\ rateLimitMap' = rl.map
          /\ req' = [req EXCEPT ![r] =
                 IF rl.allowed THEN [fresh EXCEPT !.pc = "datasets"]
                 ELSE [fresh EXCEPT !.pc = "done", !.status = 429,
                                    !.ctype = "application/json",
                                    !.respBody = <<"error">>]]
    /\ arrivals' = arrivals + 1
    /\ UNCHANGED <<clock, knownDatasets, datasetsLastFetched, rateLimitLog,
                   upstream, nextSweep>>

\* the route up to its fetch of /datasets
HandleStatusStart(r) ==
    /\ req[r].pc \in {"idle", "done"}
    /\ arrivals < MaxArrivals
    /\ req' = [req EXCEPT ![r] = [Idle EXCEPT !.route = "status", !.pc = "datasets"]]
    /\ arrivals' = arrivals + 1
    /\ UNCHANGED <<clock, rateLimitMap, knownDatasets, datasetsLastFetched,
                   rateLimitLog,
                   upstream, nextSweep>>

\* the catch of the route
StatusFailed(q) ==
    [q EXCEPT !.pc = "done", !.status = 500, !.ctype = "application/json",
              !.statusText = "error", !.error = "res.json",
              !.respBody = <<"error">>]

\* the route after the datasets read settles: the field and the fetch of
\* /jobs, or the catch
HandleStatusDatasets(r, replies) ==
    /\ req[r].route = "status"
    /\ req[r].pc = "datasets"
    /\ \E reply \in replies :
          LET q == [req[r] EXCEPT !.adminReply = reply]
          IN req' = [req EXCEPT ![r] =
                 IF StatusField(reply) = "throw" THEN StatusFailed(q)
                 ELSE [q EXCEPT !.pc = "jobs", !.datasetsField = StatusField(reply)]]
    /\ UNCHANGED <<clock, rateLimitMap, knownDatasets, datasetsLastFetched,
                   rateLimitLog, arrivals,
                   upstream, nextSweep>>

\* the route after the jobs read settles: the 200, or the catch
HandleStatusJobs(r, replies) ==
    /\ req[r].route = "status"
    /\ req[r].pc = "jobs"
    /\ \E reply \in replies :
          LET q == [req[r] EXCEPT !.jobsReply = reply]
          IN req' = [req EXCEPT ![r] =
                 IF StatusField(reply) = "throw" THEN StatusFailed(q)
                 ELSE [q EXCEPT !.pc = "done", !.status = 200,
                                !.ctype = "application/json", !.statusText = "ok",
                                !.jobsField = StatusField(reply)]]
    /\ UNCHANGED <<clock, rateLimitMap, knownDatasets, datasetsLastFetched,
                   rateLimitLog, arrivals,
                   upstream, nextSweep>>

\* ------------------------------------------------------------- other requests

\* the handler a request line is dispatched to: the cors middleware answers
\* every OPTIONS request itself; a path with another method matches no route
Route(method, path) ==
    CASE method = "OPTIONS" -> "preflight"
      [] method = "GET" /\ path = "/health" -> "health"
      [] method = "GET" /\ path = "/status" -> "status"
      [] method = "POST" /\ path \in {"/query", "/"} -> "query"
      [] method = "GET" /\ path = "/blocks/latest" -> "latest"
      [] OTHER -> "notfound"

\* a 404 handler that answers 405 for a path that has a route
NotFoundMethodAware(q) ==
    [q EXCEPT !.pc = "done",
              !.status = IF q.path = "/other" THEN 404 ELSE 405,
              !.ctype = "application/json",
              !.respBody = <<"error", "endpoints">>]

\* app.notFound: 404 {error: 'Not found', endpoints: {...}}
NotFound(q) ==
    [q EXCEPT !.pc = "done", !.status = 404, !.ctype = "application/json",
              !.respBody = <<"error", "endpoints">>]

\* the cors middleware on OPTIONS: 204, no body
Preflight(q) ==
    [q EXCEPT !.pc = "done", !.status = 204, !.ctype = "none", !.respBody = <<>>]

\* a request that no route handles
HandleUnrouted(r, methods, paths) ==
    /\ req[r].pc \in {"idle", "done"}
    /\ arrivals < MaxArrivals
    /\ \E m \in methods, p \in paths :
          LET fresh == [Idle EXCEPT !.route = Route(m, p), !.method = m, !.path = p]
          IN /\ Route(m, p) \in {"notfound", "preflight"}
             /\ req' = [req EXCEPT ![r] =
                    IF Route(m, p) = "preflight" THEN Preflight(fresh)
                    ELSE NotFound(fresh)]
    /\ arrivals' = arrivals + 1
    /\ UNCHANGED <<clock, rateLimitMap, knownDatasets, datasetsLastFetched,
                   rateLimitLog, upstream, nextSweep>>

\* --------------------------------------------------------------------- timers

\* the millisecond clock advances
Tick ==
    /\ clock < MaxTime
    /\ clock' = clock + 1
    /\ UNCHANGED <<rateLimitMap, knownDatasets, datasetsLastFetched, req,
                   rateLimitLog, arrivals,
                   upstream, nextSweep>>

\* the cleanup interval fires
Sweep ==
    /\ rateLimitMap' = Swept(rateLimitMap, clock)
    /\ rateLimitMap' # rateLimitMap
    /\ UNCHANGED <<clock, knownDatasets, datasetsLastFetched, req,
                   rateLimitLog, arrivals,
                   upstream, nextSweep>>

\* the clock advances up to the time the cleanup interval is due
TickTimed ==
    /\ clock < SweepHorizon
    /\ clock < nextSweep
    /\ clock' = clock + 1
    /\ UNCHANGED <<rateLimitMap, knownDatasets, datasetsLastFetched, req,
                   rateLimitLog, arrivals,
                   upstream, nextSweep>>

\* the cleanup interval fires when it is due and is due again one period later
SweepTimer ==
    /\ clock = nextSweep
    /\ rateLimitMap' = Swept(rateLimitMap, clock)
    /\ nextSweep' = nextSweep + SWEEP_INTERVAL_MS
    /\ UNCHANGED <<clock, knownDatasets, datasetsLastFetched, req,
                   rateLimitLog, arrivals,
                   upstream>>

\* ------------------------------------------------------------- specifications

Init ==
    /\ clock = 0
    /\ rateLimitMap = <<>>
    /\ knownDatasets = {}
    /\ datasetsLastFetched = 0
    /\ req = [r \in Slots |-> Idle]
    /\ rateLimitLog = <<>>
    /\ arrivals = 0
    /\ upstream = NoUpstream
    /\ nextSweep = SWEEP_INTERVAL_MS

\* a server that takes a new connection only when no request is in flight
AcceptsWhenQuiet(r) ==
    /\ req[r].pc \in {"idle", "done"}
    /\ \A q \in Slots : req[q].pc \in {"idle", "done"}

\* a new connection takes the first slot that holds no request in flight
Accepts(r) ==
    /\ req[r].pc \in {"idle", "done"}
    /\ \A q \in Slots : q < r => req[q].pc \notin {"idle", "done"}

Next ==
    \/ \E r \in Slots : Accepts(r) /\ HandleQueryStart(r, SampleHeaders, SampleBodies)
    \/ \E r \in Slots : HandleQueryBody(r)
    \/ \E r \in Slots : HandleQueryReply(r, SampleReplies)
    \/ Tick
    \/ Sweep

Spec == Init /\ [][Next]_vars

\* one connection and every SQL body: a request to a fresh server, or to a
\* server where the client without a forwarded-for header has used up its quota
InitAdmit ==
    /\ clock = 0
    /\ \/ /\ rateLimitMap = <<>>
          /\ rateLimitLog = <<>>
       \/ /\ rateLimitMap = [k \in {<<"unknown">>} |-> [i \in 1..RATE_LIMIT_MAX |-> 0]]
          /\ rateLimitLog =
                 [i \in 1..RATE_LIMIT_MAX |->
                     [ip |-> <<"unknown">>, t |-> 0, allowed |-> TRUE, header |-> NoHeader]]
    /\ knownDatasets = {}
    /\ datasetsLastFetched = 0
    /\ req = [r \in Slots |-> Idle]
    /\ arrivals = Len(rateLimitLog)
    /\ upstream = NoUpstream
    /\ nextSweep = SWEEP_INTERVAL_MS

NextAdmit ==
    \/ req[1].pc = "idle" /\ HandleQueryStart(1, {NoHeader}, AllBodies)
    \/ HandleQueryBody(1)
    \/ HandleQueryReply(1, UpstreamReplies)

SpecAdmit == InitAdmit /\ [][NextAdmit]_vars

\* one connection, every dataset parameter, every answer of the admin API and
\* of the indexer
NextLatest ==
    \/ HandleLatestStart(1, AllParams)
    \/ HandleLatestRefreshed(1, AdminReplies)
    \/ HandleLatestReply(1, MarkerReplies)
    \/ Tick

SpecLatest == Init /\ [][NextLatest]_vars

\* one connection on GET /health, every answer of the admin API and of the
\* indexer
NextHealth ==
    \/ HandleHealthStart(1)
    \/ HandleHealthRefreshed(1, AdminReplies)
    \/ HandleHealthMarker(1, MarkerReplies)
    \/ Tick

SpecHealth == Init /\ [][NextHealth]_vars

\* one connection on GET /status, every answer of the admin API to both reads
NextStatus ==
    \/ HandleStatusStart(1)
    \/ HandleStatusDatasets(1, AdminReplies)
    \/ HandleStatusJobs(1, JobsReplies)
    \/ Tick

SpecStatus == Init /\ [][NextStatus]_vars

\* concurrent connections on GET /health and GET /blocks/latest
NextDirectory ==
    \/ \E r \in Slots : Accepts(r) /\ HandleLatestStart(r, SampleParams)
    \/ \E r \in Slots : Accepts(r) /\ HandleHealthStart(r)
    \/ \E r \in Slots : HandleLatestRefreshed(r, SampleAdminReplies)
    \/ \E r \in Slots : HandleHealthRefreshed(r, SampleAdminReplies)
    \/ \E r \in Slots : HandleLatestReply(r, SampleMarkerReplies)
    \/ \E r \in Slots : HandleHealthMarker(r, SampleMarkerReplies)
    \/ Tick

SpecDirectory == Init /\ [][NextDirectory]_vars

\* one connection on POST /query with every forwarded-for header and a
\* statement that is not forwarded
BucketBodies == {JsonBody(TRUE, <<"DROP">>, FALSE, <<>>)}

NextBuckets ==
    \/ HandleQueryStart(1, AllHeaders, BucketBodies)
    \/ HandleQueryBody(1)
    \/ Tick

SpecBuckets == Init /\ [][NextBuckets]_vars

\* one connection on POST /query and the cleanup interval on its period
NextSweep ==
    \/ HandleQueryStart(1, SampleHeaders, BucketBodies)
    \/ HandleQueryBody(1)
    \/ TickTimed
    \/ SweepTimer

SpecSweep == Init /\ [][NextSweep]_vars

\* one connection, every request line that no route handles, and requests
\* that fill the ledger and the directory
NextRoutes ==
    \/ HandleUnrouted(1, Methods, Paths)
    \/ HandleQueryStart(1, {NoHeader}, BucketBodies)
    \/ HandleQueryBody(1)
    \/ HandleLatestStart(1, ServerParams)
    \/ HandleLatestRefreshed(1, ServerAdminReplies)
    \/ HandleLatestReply(1, ServerMarkerReplies)
    \/ Tick

SpecRoutes == Init /\ [][NextRoutes]_vars

\* concurrent connections on every route within one millisecond: one answer
\* of each upstream that succeeds and one that fails
LiveAdminReplies ==
    {[kind |-> "network_error", data |-> <<>>],
     [kind |-> "ok", data |-> <<[kind |-> "name", text |-> <<"a">>]>>]}
LiveMarkerReplies ==
    {[kind |-> "ok", body |-> <<"ROW5">>], [kind |-> "network_error", body |-> <<>>]}
LiveBodies == {TextBody(<<"SELECT">>), MalformedBody("json_syntax")}

\* the steps of the request of slot r after its upstream call settled or its
\* body was read
Settles(r) ==
    \/ HandleQueryBody(r)
    \/ HandleQueryReply(r, LiveMarkerReplies)
    \/ HandleLatestRefreshed(r, LiveAdminReplies)
    \/ HandleLatestReply(r, LiveMarkerReplies)
    \/ HandleHealthRefreshed(r, LiveAdminReplies)
    \/ HandleHealthMarker(r, LiveMarkerReplies)
    \/ HandleStatusDatasets(r, LiveAdminReplies)
    \/ HandleStatusJobs(r, LiveAdminReplies)

\* the arrival of a request in slot r
Arrives(r) ==
    \/ HandleQueryStart(r, {NoHeader}, LiveBodies)
    \/ HandleLatestStart(r, ServerParams)
    \/ HandleHealthStart(r)
    \/ HandleStatusStart(r)
    \/ HandleUnrouted(r, ServerMethods, ServerPaths)

NextLive ==
    \/ \E r \in Slots : Accepts(r) /\ Arrives(r)
    \/ \E r \in Slots : Settles(r)

\* every upstream call returns or fails, and every body is read, in the end
SpecLive ==
    /\ Init
    /\ [][NextLive]_vars
    /\ \A r \in Slots : WF_vars(Settles(r))

\* an upstream whose answers do not change: the admin API answers every read
\* of /datasets, and the indexer every statement, the same way
SteadyAdminReplies ==
    {[kind |-> "ok", data |-> <<[kind |-> "name", text |-> <<"a">>]>>],
     [kind |-> "ok", data |-> <<[kind |-> "name", text |-> <<"a", "1">>]>>],
     [kind |-> "network_error", data |-> <<>>]}
SteadyMarkerReplies ==
    {[kind |-> "ok", body |-> <<"ROW5">>], [kind |-> "http_error", body |-> <<"ERR">>]}
SteadyParams == {Param(<<"a">>), Param(<<"a", "1">>)}

\* the server in front of a steady upstream: its directory is empty, or holds
\* the list of a refresh made at time 0, before the admin API came to
\* answer as it does now
InitSteady ==
    /\ clock = 0
    /\ rateLimitMap = <<>>
    /\ knownDatasets \in {{}, {<<"a">>}}
    /\ datasetsLastFetched = 0
    /\ req = [r \in Slots |-> Idle]
    /\ rateLimitLog = <<>>
    /\ arrivals = 0
    /\ upstream \in [admin : SteadyAdminReplies, marker : SteadyMarkerReplies]
    /\ nextSweep = SWEEP_INTERVAL_MS

\* connections on GET /blocks/latest and GET /health; a finished request
\* stays in its slot until another takes the slot
NextSteady ==
    \/ \E r \in Slots : HandleLatestStart(r, SteadyParams)
    \/ \E r \in Slots : HandleLatestRefreshed(r, {upstream.admin})
    \/ \E r \in Slots : HandleLatestReply(r, {upstream.marker})
    \/ HandleHealthStart(2)
    \/ HandleHealthRefreshed(2, {upstream.admin})
    \/ HandleHealthMarker(2, {upstream.marker})
    \/ Tick

SpecSteady == InitSteady /\ [][NextSteady]_vars

\* the whole server: concurrent connections on every route
NextServer ==
    \/ \E r \in Slots : Accepts(r) /\ HandleQueryStart(r, {NoHeader}, ServerBodies)
    \/ \E r \in Slots : HandleQueryBody(r)
    \/ \E r \in Slots : HandleQueryReply(r, ServerMarkerReplies)
    \/ \E r \in Slots : Accepts(r) /\ HandleLatestStart(r, ServerParams)
    \/ \E r \in Slots : HandleLatestRefreshed(r, ServerAdminReplies)
    \/ \E r \in Slots : HandleLatestReply(r, ServerMarkerReplies)
    \/ \E r \in Slots : Accepts(r) /\ HandleHealthStart(r)
    \/ \E r \in Slots : HandleHealthRefreshed(r, ServerAdminReplies)
    \/ \E r \in Slots : HandleHealthMarker(r, ServerMarkerReplies)
    \/ \E r \in Slots : Accepts(r) /\ HandleStatusStart(r)
    \/ \E r \in Slots : HandleStatusDatasets(r, ServerAdminReplies)
    \/ \E r \in Slots : HandleStatusJobs(r, ServerAdminReplies)
    \/ \E r \in Slots : Accepts(r) /\ HandleUnrouted(r, ServerMethods, ServerPaths)
    \/ Tick
    \/ Sweep

SpecServer == Init /\ [][NextServer]_vars

\* ===================================================================== claims

QuerySlots == {r \in Slots : req[r].route = "query"}
LatestSlots == {r \in Slots : req[r].route = "latest"}

\* the rateLimit calls before call i that were allowed for the same client and
\* whose timestamp t has now - t < window, now being the clock of call i
AllowedInWindowBefore(i) ==
    {j \in 1..(i - 1) :
        /\ rateLimitLog[j].ip = rateLimitLog[i].ip
        /\ rateLimitLog[j].allowed
        /\ rateLimitLog[i].t - rateLimitLog[j].t < RATE_LIMIT_WINDOW_MS}

\* C1: with a non-decreasing clock, a POST /query request is allowed exactly
\* when fewer than RATE_LIMIT_MAX earlier allowed requests of its client have
\* a timestamp inside the window (so it is allowed again as soon as the oldest
\* counted timestamp has left the window), and it is answered 429 exactly
\* when it is not allowed.
C1_SlidingWindow ==
    /\ \A i \in DOMAIN rateLimitLog :
          rateLimitLog[i].allowed
              <=> Cardinality(AllowedInWindowBefore(i)) < RATE_LIMIT_MAX
    /\ \A r \in QuerySlots :
          req[r].status = 429 <=> ~rateLimitLog[req[r].call].allowed

\* a client was refused with 429 and, the window having passed, allowed again
C1_Witness ==
    \E r \in QuerySlots : \E i, j \in DOMAIN rateLimitLog :
        /\ req[r].status = 429
        /\ req[r].call = i
        /\ i < j
        /\ rateLimitLog[j].ip = rateLimitLog[i].ip
        /\ rateLimitLog[j].allowed
        /\ Cardinality(AllowedInWindowBefore(i)) = RATE_LIMIT_MAX

\* the allowed requests of a client with a timestamp in [a, a + window)
AllowedIn(ip, a) ==
    {i \in DOMAIN rateLimitLog :
        /\ rateLimitLog[i].ip = ip
        /\ rateLimitLog[i].allowed
        /\ a <= rateLimitLog[i].t
        /\ rateLimitLog[i].t < a + RATE_LIMIT_WINDOW_MS}

\* C2: whatever requests are in flight, the allowed requests of one client
\* whose timestamps lie in any half-open interval of window width never
\* number more than RATE_LIMIT_MAX (rateLimit runs as one step of
\* HandleQueryStart: there is no await between its read and its write).
C2_AtMostMaxPerWindow ==
    \A i \in DOMAIN rateLimitLog : \A a \in 0..MaxTime :
        Cardinality(AllowedIn(rateLimitLog[i].ip, a)) <= RATE_LIMIT_MAX

\* a request of a client is refused while an earlier allowed request of the
\* same client is still in flight, suspended at the await of its fetch
C2_Witness ==
    \E r1, r2 \in QuerySlots :
        /\ req[r1].pc = "upstream"
        /\ req[r2].status = 429
        /\ req[r2].ip = req[r1].ip
        /\ req[r1].call < req[r2].call
        /\ Cardinality(AllowedIn(req[r1].ip, rateLimitLog[req[r2].call].t)) = RATE_LIMIT_MAX

\* C9: an admitted POST /query request posts exactly one statement to the
\* indexer, a refused one none; its 200 carries the answer to that one post,
\* and a failed post is answered 502 without another post.
C9_ExactlyOneForward ==
    \A r \in QuerySlots :
        /\ req[r].pc = "body" => req[r].sent = <<>>
        /\ req[r].pc = "upstream" => Len(req[r].sent) = 1
        /\ req[r].pc = "done" =>
              /\ req[r].status \in {200, 502} <=> Len(req[r].sent) = 1
              /\ req[r].status \notin {200, 502} <=> req[r].sent = <<>>
              /\ req[r].status = 200 <=> req[r].reply.kind = "ok"
              /\ req[r].status = 502 <=> req[r].reply.kind \in {"http_error", "network_error"}
              /\ req[r].status = 200 => req[r].respBody = req[r].reply.body

\* a post failed and was answered 502, another succeeded
C9_Witness ==
    \E r1, r2 \in QuerySlots :
        /\ req[r1].status = 502 /\ Len(req[r1].sent) = 1
        /\ req[r2].status = 200 /\ Len(req[r2].sent) = 1

\* ---- POST /query, one request at a time (SpecAdmit)

\* the SQL a request supplies: its raw text, or the sql field of its JSON
\* object, or the query field when sql is missing or empty
SuppliedSql(b) ==
    IF b.kind = "text" THEN [defined |-> TRUE, text |-> b.text]
    ELSE IF b.hasSql /\ Len(b.sql) > 0 THEN [defined |-> TRUE, text |-> b.sql]
    ELSE [defined |-> b.hasQuery, text |-> b.query]

AllBlank(text) == \A i \in DOMAIN text : text[i] \in {" ", "\n"}

\* the request supplies no SQL, or only whitespace
SuppliesNoSql(b) == ~SuppliedSql(b).defined \/ AllBlank(SuppliedSql(b).text)

\* the request's rateLimit call returned false
RateLimited(r) == ~rateLimitLog[req[r].call].allowed

\* the supplied text, comments stripped and trimmed, starts with none of
\* SELECT, WITH, EXPLAIN
NotReadOnly(b) == ~IsReadOnly(Normalized(SuppliedSql(b).text))

C4_Original ==
    \A r \in QuerySlots :
        SuppliesNoSql(req[r].body) =>
            /\ req[r].sent = <<>> /\ req[r].adminCalls = 0
            /\ req[r].pc = "done" => req[r].status = 400

\* C4 (amended): a request with empty or whitespace-only SQL (raw text, or a
\* JSON object without usable sql/query) causes no network call and is
\* answered 400, unless the rate limiter refuses it first with 429.
C4_BlankIs400 ==
    \A r \in QuerySlots :
        SuppliesNoSql(req[r].body) =>
            /\ req[r].sent = <<>> /\ req[r].adminCalls = 0
            /\ req[r].pc \in {"body", "done"}
            /\ req[r].pc = "done" =>
                  req[r].status = IF RateLimited(r) THEN 429 ELSE 400

\* a JSON object whose sql is whitespace is answered 400
C4_Witness ==
    \E r \in QuerySlots :
        /\ req[r].status = 400
        /\ req[r].body.kind = "json"
        /\ req[r].body.hasSql
        /\ req[r].body.sql = <<" ">>

\* C5 as stated: a request whose SQL is longer than the maximum, measured
\* in bytes, is never sent upstream, and is answered 413 (when it is not
\* rate limited).
C5_Claim ==
    \A r \in QuerySlots :
        (/\ SuppliedSql(req[r].body).defined
         /\ ByteLength(SuppliedSql(req[r].body).text) > MAX_QUERY_SIZE) =>
            /\ req[r].sent = <<>>
            /\ (req[r].pc = "done" /\ ~RateLimited(r)) => req[r].status = 413

\* the status the claimed order of checks gives a finished request
ClaimedStatus(r) ==
    LET s == SuppliedSql(req[r].body)
    IN IF RateLimited(r) THEN {429}
       ELSE IF ~s.defined \/ AllBlank(s.text) THEN {400}
       ELSE IF StrLength(s.text) > MAX_QUERY_SIZE THEN {413}
       ELSE IF ~IsReadOnly(Normalized(s.text)) THEN {403}
       ELSE IF req[r].reply.kind = "ok" THEN {200}
       ELSE {502}

\* C6: POST /query answers with the first failing check in the order rate
\* limit (429), empty (400), oversized (413, the handler's sql.length test),
\* not read-only (403), then the forward (200, or 502 when it fails); the
\* indexer is contacted only when all four checks pass.
C6_CheckOrder ==
    \A r \in QuerySlots :
        /\ req[r].pc = "done" => req[r].status \in ClaimedStatus(r)
        /\ req[r].sent # <<>> => ClaimedStatus(r) \subseteq {200, 502}

\* an oversized statement that is not read-only is answered 413
C6_Witness ==
    \E r \in QuerySlots :
        /\ req[r].status = 413
        /\ req[r].body.kind = "text"
        /\ Len(req[r].body.text) > 0
        /\ req[r].body.text[1] = "DROP"

\* the text after its leading whitespace, line comments (-- to the end of
\* the line) and block comments (/* to the nearest */)
RECURSIVE AfterComments(_)
AfterComments(s) ==
    IF s = <<>> THEN s
    ELSE IF s[1] \in {" ", "\n"} THEN AfterComments(Tail(s))
    ELSE IF Len(s) >= 2 /\ s[1] = "-" /\ s[2] = "-"
    THEN LET nl == IndexOf(s, "\n", 3)
         IN IF nl = 0 THEN <<>> ELSE AfterComments(SubSeq(s, nl + 1, Len(s)))
    ELSE IF Len(s) >= 2 /\ s[1] = "/" /\ s[2] = "*"
    THEN LET close == IndexOfPair(s, "*", "/", 3)
         IN IF close = 0 THEN s ELSE AfterComments(SubSeq(s, close + 2, Len(s)))
    ELSE s

\* C7 as stated: a request whose SQL is any sequence of line comments, block
\* comments and whitespace followed by a statement beginning with SELECT,
\* WITH or EXPLAIN is not answered 403.
C7_Claim ==
    \A r \in QuerySlots :
        (/\ req[r].body.kind = "text"
         /\ \E kw \in {"SELECT", "WITH", "EXPLAIN"} :
               StartsWithKeyword(AfterComments(req[r].body.text), kw)) =>
            req[r].status # 403

\* C8: the text an admitted request posts to the indexer is exactly the SQL
\* the client supplied, nothing stripped or normalised, and on success the
\* 200 response carries the indexer's body unchanged as application/x-ndjson.
C8_Passthrough ==
    \A r \in QuerySlots :
        /\ req[r].sent # <<>> => req[r].sent = <<SuppliedSql(req[r].body).text>>
        /\ (req[r].pc = "done" /\ req[r].reply.kind = "ok") =>
              /\ req[r].status = 200
              /\ req[r].respBody = req[r].reply.body
              /\ req[r].ctype = "application/x-ndjson"
        /\ req[r].status = 200 => req[r].reply.kind = "ok"

\* a statement with a comment and a trailing line break was forwarded as it
\* was and answered with the two rows of the indexer
C8_Witness ==
    \E r \in QuerySlots :
        /\ req[r].status = 200
        /\ req[r].body.kind = "text"
        /\ req[r].sent = <<req[r].body.text>>
        /\ Normalized(req[r].body.text) # req[r].body.text
        /\ Trim(req[r].body.text) # req[r].body.text
        /\ req[r].respBody = <<"ROW5", "\n", "ROW0">>

\* ---- GET /blocks/latest, one request at a time (SpecLatest)

\* ^[A-Za-z_][A-Za-z0-9_]*$ over the characters of identifiers
MatchesIdPattern(id) ==
    /\ Len(id) >= 1
    /\ id[1] \in {"a", "_"}
    /\ \A i \in 2..Len(id) : id[i] \in {"a", "_", "1"}

\* C10: a GET /blocks/latest whose dataset does not match the identifier
\* pattern is answered 400 whatever the directory holds, and neither a
\* statement nor a /datasets read is sent for it.
C10_InvalidIdIs400 ==
    \A r \in LatestSlots :
        ~MatchesIdPattern(req[r].dataset) =>
            /\ req[r].pc = "done"
            /\ req[r].status = 400
            /\ req[r].sent = <<>>
            /\ req[r].adminCalls = 0

\* the directory holds exactly the name asked for, the name does not match
\* the pattern, and the request is answered 400
C10_Witness ==
    \E r \in LatestSlots :
        /\ ~MatchesIdPattern(req[r].dataset)
        /\ req[r].dataset # <<>>
        /\ knownDatasets = {req[r].dataset}
        /\ req[r].status = 400

\* ------------------------------------------------------------ dataset directory

\* the admin API's answer lists the identifier: a 2xx JSON array with an item
\* that names it
ListsId(reply, id) ==
    /\ reply.kind = "ok"
    /\ \E i \in DOMAIN reply.data :
          reply.data[i].kind \in {"name", "id", "string"} /\ reply.data[i].text = id

\* slot r takes a new GET /blocks/latest request in this step
LatestArrives(r) ==
    /\ arrivals' # arrivals
    /\ req'[r].route = "latest"
    /\ \A o \in Slots \ {r} : req'[o] = req[o]

\* refreshDatasets of the request of slot r gets the admin API's answer in
\* this step
RefreshSettles(r) == req[r].pc = "admin" /\ req'[r].pc # "admin"

\* C11: GET /blocks/latest for an identifier that matches the pattern is
\* answered 400, with nothing sent to the indexer, when the directory it is
\* validated against is populated and does not hold it (the fresh cache, or
\* the set after a refresh); a request that arrives a cache TTL or more after
\* the last refresh reads the admin API's list, and when that list names the
\* identifier the request is accepted (its marker statement is forwarded)
\* and the identifier is in the cache, with no restart.
C11_AcceptedAfterRefresh ==
    [][\A r \in Slots :
          LET q == req'[r]
              id == q.dataset
          IN /\ (/\ LatestArrives(r) /\ MatchesIdPattern(id)
                  /\ knownDatasets # {} /\ id \notin knownDatasets
                  /\ clock - datasetsLastFetched < DATASETS_CACHE_TTL)
                 => q.pc = "done" /\ q.status = 400 /\ q.sent = <<>>
                    /\ q.adminCalls = 0
             /\ (/\ LatestArrives(r) /\ MatchesIdPattern(id)
                  /\ clock - datasetsLastFetched >= DATASETS_CACHE_TTL)
                 => q.pc = "admin" /\ q.adminCalls = 1
             /\ (/\ RefreshSettles(r) /\ q.route = "latest"
                  /\ ListsId(q.adminReply, id))
                 => /\ q.pc = "upstream" /\ q.sent = <<MarkerSql(id)>>
                    /\ id \in knownDatasets'
             /\ (/\ RefreshSettles(r) /\ q.route = "latest"
                  /\ q.datasets # {} /\ id \notin q.datasets)
                 => q.pc = "done" /\ q.status = 400 /\ q.sent = <<>>
      ]_vars

\* a request for an identifier the populated cache did not hold is accepted
\* after its refresh, a TTL after the one that populated the cache
C11_Witness ==
    \E r \in LatestSlots :
        /\ req[r].cached # {}
        /\ req[r].dataset \notin req[r].cached
        /\ req[r].now >= DATASETS_CACHE_TTL
        /\ ListsId(req[r].adminReply, req[r].dataset)
        /\ req[r].pc = "upstream"
        /\ req[r].dataset \in knownDatasets

\* the requests of GET /blocks/latest whose identifier matched the pattern and
\* whose validateDataset has the set refreshDatasets returned
ResolvedLatest ==
    {r \in LatestSlots :
        MatchesIdPattern(req[r].dataset) /\ req[r].pc \in {"upstream", "done"}}

\* C12: validateDataset throws Unknown dataset exactly when the set that
\* refreshDatasets returned is non-empty and lacks the identifier; when that
\* set is empty (the directory was never populated), every identifier that
\* matches the pattern is accepted and its marker statement is forwarded.
C12_UnknownOnlyWhenPopulated ==
    \A r \in ResolvedLatest :
        /\ req[r].error = "Unknown dataset"
              <=> (req[r].datasets # {} /\ req[r].dataset \notin req[r].datasets)
        /\ req[r].datasets = {}
              => /\ req[r].sent = <<MarkerSql(req[r].dataset)>>
                 /\ ~(req[r].status = 400 /\ req[r].reply = NoReply)

\* a request is accepted although the admin API could not be read and the
\* directory is empty
C12_Witness ==
    \E r \in ResolvedLatest :
        /\ req[r].datasets = {}
        /\ req[r].adminReply.kind = "network_error"
        /\ req[r].sent = <<MarkerSql(req[r].dataset)>>

\* the refresh attempt failed: no response, a non-2xx response, a 2xx body
\* that is not JSON or not an array, or an array with a null item
RefreshFailed(reply) ==
    \/ reply.kind \in {"network_error", "http_error", "malformed", "not_array"}
    \/ reply.kind = "ok" /\ \E i \in DOMAIN reply.data : reply.data[i].kind = "null"

\* C13: when the read of a refresh fails (no response, non-2xx, malformed
\* body), the cached set and datasetsLastFetched are left as they were and
\* refreshDatasets returns that set to its caller instead of throwing: the
\* request goes on to the lookup of its identifier.
C13_FailedRefreshKeepsCache ==
    [][\A r \in Slots :
          (RefreshSettles(r) /\ RefreshFailed(req'[r].adminReply))
          => /\ knownDatasets' = knownDatasets
             /\ datasetsLastFetched' = datasetsLastFetched
             /\ req'[r].datasets = knownDatasets
             /\ req'[r].error \in {"none", "Unknown dataset"}
             /\ req'[r].status \in {0, 400}
      ]_vars

\* a failed refresh has left a populated cache in place
C13_Witness ==
    \E r \in LatestSlots :
        /\ req[r].adminCalls = 1
        /\ RefreshFailed(req[r].adminReply)
        /\ req[r].cached # {}
        /\ req[r].datasets = req[r].cached
        /\ knownDatasets = req[r].cached

\* the dataset names of a 2xx array: the name of an item, else its id, else
\* the item itself, when that is a string
ListedNames(data) ==
    {data[i].text : i \in {j \in DOMAIN data : data[j].kind \in {"name", "id", "string"}}}

\* the read of a refresh succeeded
RefreshSucceeded(reply) == reply.kind = "ok" /\ ~RefreshFailed(reply)

\* C14 as stated: after a successful read, the cache is the set of names of
\* the response and datasetsLastFetched is the time of the call, also when
\* the response lists no name.
C14_Original ==
    [][\A r \in Slots :
          (RefreshSettles(r) /\ RefreshSucceeded(req'[r].adminReply))
          => /\ knownDatasets' = ListedNames(req'[r].adminReply.data)
             /\ datasetsLastFetched' = req[r].now
      ]_vars

\* C14: after a successful read that lists at least one name, the cache is
\* exactly the set of names of the response (also when they are fewer than
\* before) and datasetsLastFetched is the time the call started, both set in
\* the same step; after a successful read that lists no name, the cache and
\* datasetsLastFetched are left as they were.
C14_ReplacedUnlessEmpty ==
    [][\A r \in Slots :
          (RefreshSettles(r) /\ RefreshSucceeded(req'[r].adminReply))
          => LET names == ListedNames(req'[r].adminReply.data)
             IN IF names # {}
                THEN /\ knownDatasets' = names
                     /\ datasetsLastFetched' = req[r].now
                     /\ req'[r].datasets = names
                ELSE /\ knownDatasets' = knownDatasets
                     /\ datasetsLastFetched' = datasetsLastFetched
                     /\ req'[r].datasets = knownDatasets
      ]_vars

\* a successful read that lists fewer datasets than before has replaced the
\* cache
C14_Witness ==
    \E r \in Slots :
        /\ req[r].route \in {"latest", "health"}
        /\ req[r].adminCalls = 1
        /\ req[r].pc \in {"upstream", "done"}
        /\ RefreshSucceeded(req[r].adminReply)
        /\ knownDatasets = ListedNames(req[r].adminReply.data)
        /\ knownDatasets # req[r].cached
        /\ knownDatasets \subseteq req[r].cached
        /\ datasetsLastFetched = req[r].now

\* C15: any two reads of the admin API's dataset list by refreshDatasets are
\* at least a cache TTL apart (the requests of two connections never both
\* caused a read within one TTL).
C15_Claim ==
    \A r1, r2 \in Slots :
        (/\ r1 # r2
         /\ req[r1].adminCalls > 0
         /\ req[r2].adminCalls > 0
         /\ req[r1].now <= req[r2].now)
        => req[r2].now - req[r1].now >= DATASETS_CACHE_TTL

\* ------------------------------------------------------------------ GET /health

HealthSlots == {r \in Slots : req[r].route = "health"}

\* the marker query of a dataset failed: no response, a non-2xx response, or a
\* 2xx body with a line that is not JSON
MarkerQueryFailed(reply) ==
    \/ reply.kind \in {"network_error", "http_error"}
    \/ reply.kind = "ok" /\ QueryAmpJson(reply.body).threw

\* C16: when the indexer is unreachable (every marker query of the request got
\* no response), GET /health answers 503 with status "error".
C16_Claim ==
    \A r \in HealthSlots :
        (/\ req[r].pc = "done"
         /\ DOMAIN req[r].got # {}
         /\ \A d \in DOMAIN req[r].got : req[r].got[d].kind = "network_error")
        => req[r].status = 503 /\ req[r].statusText = "error"

NonNullMarkers(r) == {req[r].markers[d] : d \in DOMAIN req[r].markers} \ {"null"}

\* C18: the latestBlock of a GET /health response is null exactly when no
\* per-dataset marker of the response is a number (all null, or no dataset),
\* and otherwise it is one of the markers and no marker is greater.
C18_LatestIsMax ==
    \A r \in HealthSlots :
        (req[r].pc = "done" /\ req[r].status = 200)
        => /\ req[r].latestBlock = "null" <=> NonNullMarkers(r) = {}
           /\ NonNullMarkers(r) # {}
                 => /\ req[r].latestBlock \in NonNullMarkers(r)
                    /\ \A m \in NonNullMarkers(r) :
                          MarkerNumber(m) <= MarkerNumber(req[r].latestBlock)

\* two datasets with different markers, the greater one reported
C18_Witness ==
    \E r \in HealthSlots :
        /\ req[r].pc = "done"
        /\ NonNullMarkers(r) = {"5", "7"}
        /\ req[r].latestBlock = "7"

\* ------------------------------------------------------------------ GET /status

StatusSlots == {r \in Slots : req[r].route = "status"}

\* a read of the admin API that yields no usable data: no response, a non-2xx
\* response, or a 2xx body that is not JSON
Unusable(reply) == reply.kind \in {"network_error", "http_error", "malformed"}

\* C19: GET /status always answers 200 once both reads have settled, whatever
\* the admin API answered; a read without usable data makes its own field
\* null and the other field is reported.
C19_Claim ==
    \A r \in StatusSlots :
        /\ req[r].pc = "done"
              => /\ req[r].status = 200
                 /\ req[r].jobsReply # NoAdminReply
                 /\ req[r].datasetsField = "null" <=> Unusable(req[r].adminReply)
                 /\ req[r].jobsField = "null" <=> Unusable(req[r].jobsReply)
        /\ req[r].pc = "jobs" => req[r].adminReply # NoAdminReply

\* ---------------------------------------------------------- GET /blocks/latest

\* C20: a GET /blocks/latest request whose identifier passed validation and
\* whose marker query failed upstream (no response, or a non-2xx response with
\* any body) is answered 502; a 400 is answered only when the parameter is
\* missing or the identifier is invalid or unknown.
C20_Claim ==
    \A r \in LatestSlots :
        req[r].pc = "done"
        => /\ req[r].reply.kind \in {"network_error", "http_error"}
                 => req[r].status = 502
           /\ req[r].status = 400
                 => \/ req[r].dataset = <<>>
                    \/ ~MatchesIdPattern(req[r].dataset)
                    \/ (req[r].datasets # {} /\ req[r].dataset \notin req[r].datasets)

\* --------------------------------------------------------------- error responses

\* the body of a response is JSON with an error field
JsonWithError(r) ==
    /\ req[r].ctype = "application/json"
    /\ \E i \in DOMAIN req[r].respBody : req[r].respBody[i] = "error"

\* the body of a POST /query request is declared JSON and is not an object
\* with a string sql or query field
IsMalformedInput(b) ==
    b.kind \in {"json_syntax", "json_null", "json_scalar", "json_sql_number"}

\* C21: a POST /query request with malformed input is answered with a 4xx
\* status and a JSON body with an error field, and nothing is sent upstream;
\* every response of the gateway with an error status is JSON with an error
\* field.
C21_Claim ==
    \A r \in Slots :
        req[r].pc = "done"
        => /\ (req[r].route = "query" /\ IsMalformedInput(req[r].body))
                 => /\ req[r].status \in 400..499
                    /\ JsonWithError(r)
                    /\ req[r].sent = <<>>
           /\ req[r].status >= 400 => JsonWithError(r)

\* ---------------------------------------------------------- GET /blocks/latest

\* SELECT MAX(block_num) as latest FROM "D".blocks
StatementFor(D) ==
    <<"SELECT", " ", "MAX(block_num)", " ", "as", " ", "latest", " ", "FROM",
      " ", "\"">> \o D \o <<"\"", ".blocks">>

\* the identifier of the request passed validateDataset
PassedValidation(r) ==
    /\ MatchesIdPattern(req[r].dataset)
    /\ req[r].pc \in {"upstream", "done"}
    /\ req[r].datasets = {} \/ req[r].dataset \in req[r].datasets

\* C22: a GET /blocks/latest request whose identifier D passed validation has
\* sent upstream exactly one statement, SELECT MAX(block_num) as latest FROM
\* "D".blocks with D as given; a request whose identifier did not pass has
\* sent nothing.
C22_MarkerStatement ==
    \A r \in LatestSlots :
        /\ PassedValidation(r) => req[r].sent = <<StatementFor(req[r].dataset)>>
        /\ (req[r].pc = "done" /\ ~PassedValidation(r)) => req[r].sent = <<>>

\* the directory holds the one name the admin API listed, and a request for
\* it, validated against the cache, has forwarded the statement
C22_Witness ==
    \E r \in LatestSlots :
        /\ req[r].cached = {req[r].dataset}
        /\ req[r].adminCalls = 0
        /\ req[r].datasets = {req[r].dataset}
        /\ req[r].sent = <<StatementFor(req[r].dataset)>>

\* ---------------------------------------------------------------- rate limiter

\* a handler calls rateLimit in this step
RateLimitCalled == Len(rateLimitLog') = Len(rateLimitLog) + 1

\* C24: a rateLimit call that returns false leaves the whole ledger as it
\* was; a call that returns true makes the client's entry its stored list
\* without the timestamps t with now - t >= window, followed by now, and
\* leaves every other client's entry as it was.
C24_LedgerFrame ==
    [][RateLimitCalled =>
          LET e == rateLimitLog'[Len(rateLimitLog')]
              stored == IF e.ip \in DOMAIN rateLimitMap THEN rateLimitMap[e.ip] ELSE <<>>
              pruned == SelectSeq(stored, LAMBDA t : e.t - t < RATE_LIMIT_WINDOW_MS)
          IN IF ~e.allowed
             THEN rateLimitMap' = rateLimitMap
             ELSE /\ DOMAIN rateLimitMap' = DOMAIN rateLimitMap \cup {e.ip}
                  /\ rateLimitMap'[e.ip] = Append(pruned, e.t)
                  /\ \A k \in DOMAIN rateLimitMap \ {e.ip} :
                        rateLimitMap'[k] = rateLimitMap[k]
      ]_vars

\* the latest call was refused while the ledger holds the entries of two
\* clients, one of them put there by an allowed call
C24_Witness ==
    /\ Len(rateLimitLog) > 0
    /\ ~rateLimitLog[Len(rateLimitLog)].allowed
    /\ \E i \in DOMAIN rateLimitLog :
          /\ rateLimitLog[i].allowed
          /\ rateLimitLog[i].ip # rateLimitLog[Len(rateLimitLog)].ip
    /\ Cardinality(DOMAIN rateLimitMap) = 2

\* C25: a request to GET /health, GET /status, GET /blocks/latest or to no
\* route is never answered 429, and no step of such a request changes the
\* rate-limit ledger or calls rateLimit.
C25_OnlyQueryLimited ==
    [][\A r \in Slots :
          (req'[r] # req[r] /\ req'[r].route # "query")
          => /\ rateLimitMap' = rateLimitMap
             /\ rateLimitLog' = rateLimitLog
             /\ req'[r].status # 429
      ]_vars

\* the client without a forwarded-for header has used up its quota, and a
\* request to another route is answered while a POST /query is in flight
C25_Witness ==
    \E r1, r2 \in Slots :
        /\ req[r1].route = "query" /\ req[r1].pc = "upstream"
        /\ req[r1].call = Len(rateLimitLog)
        /\ <<"unknown">> \in DOMAIN rateLimitMap
        /\ Len(Recent(rateLimitMap[<<"unknown">>], clock)) = RATE_LIMIT_MAX
        /\ req[r2].route \in {"health", "status", "latest", "notfound"}
        /\ req[r2].pc = "done"
        /\ req[r2].status \in {200, 400, 404}

\* ------------------------------------------------------------------ idempotence

\* the names the admin API lists now
NamesListedNow ==
    IF upstream.admin.kind = "ok" THEN ListedNames(upstream.admin.data) ELSE {}

\* two answered GET /blocks/latest requests for the same dataset
SameRequest(r1, r2) ==
    /\ req[r1].route = "latest" /\ req[r1].pc = "done"
    /\ req[r2].route = "latest" /\ req[r2].pc = "done"
    /\ req[r1].dataset = req[r2].dataset

\* the directory the request found held no list older than the present one
FoundNoOlderList(r) == req[r].cached \in {{}, NamesListedNow}

\* C23 as stated: against an upstream whose answers do not change, two
\* identical GET /blocks/latest requests get the same status and the same
\* latestBlock.
C23_Original ==
    \A r1, r2 \in Slots :
        SameRequest(r1, r2)
        => /\ req[r1].status = req[r2].status
           /\ req[r1].latestBlock = req[r2].latestBlock

\* C23: against an upstream whose answers do not change, two identical GET
\* /blocks/latest requests that both found the directory empty or holding
\* the list the admin API gives now get the same status and the same
\* latestBlock, whatever requests ran in between.
C23_SameAnswerOnceCurrent ==
    \A r1, r2 \in Slots :
        (SameRequest(r1, r2) /\ FoundNoOlderList(r1) /\ FoundNoOlderList(r2))
        => /\ req[r1].status = req[r2].status
           /\ req[r1].latestBlock = req[r2].latestBlock

\* a request that fetched the list and a later one that was answered from the
\* cache, for the same dataset, the second missing from the list or not
C23_Witness ==
    \E r1, r2 \in Slots :
        /\ SameRequest(r1, r2)
        /\ req[r1].cached = {} /\ req[r1].adminCalls = 1
        /\ req[r2].cached = NamesListedNow /\ req[r2].adminCalls = 0
        /\ req[r1].status = req[r2].status
        /\ req[r1].status \in {200, 400}
        /\ req[r1].error \in {"none", "Unknown dataset"}

\* ---------------------------------------------------------------------- buckets

\* the text before the first comma
FirstElement(text) ==
    LET commas == {i \in DOMAIN text : text[i] = ","}
    IN IF commas = {} THEN text
       ELSE SubSeq(text, 1, (CHOOSE i \in commas : \A j \in commas : i <= j) - 1)

\* the text from its first to its last character that is not a space
Stripped(text) ==
    LET solid == {i \in DOMAIN text : text[i] # " "}
    IN IF solid = {} THEN <<>>
       ELSE SubSeq(text, CHOOSE i \in solid : \A j \in solid : i <= j,
                         CHOOSE i \in solid : \A j \in solid : j <= i)

\* the bucket of a forwarded-for header
Bucket(h) ==
    IF ~h.present \/ Stripped(FirstElement(h.text)) = <<>>
    THEN <<"unknown">>
    ELSE Stripped(FirstElement(h.text))

\* the earlier allowed calls of the window of call i whose headers map to the
\* bucket of call i
SharedQuota(i) ==
    {j \in 1..(i - 1) :
        /\ rateLimitLog[j].allowed
        /\ Bucket(rateLimitLog[j].header) = Bucket(rateLimitLog[i].header)
        /\ rateLimitLog[i].t - rateLimitLog[j].t < RATE_LIMIT_WINDOW_MS}

\* C26: a request is counted under the first comma-separated element of its
\* forwarded-for header, trimmed, or under "unknown" when the header is absent
\* or that element is empty; it is allowed exactly when fewer than the
\* maximum of earlier allowed requests of the window map to the same bucket,
\* so requests share a quota if and only if their buckets are equal.
C26_Buckets ==
    \A i \in DOMAIN rateLimitLog :
        /\ rateLimitLog[i].ip = Bucket(rateLimitLog[i].header)
        /\ rateLimitLog[i].allowed <=> Cardinality(SharedQuota(i)) < RATE_LIMIT_MAX

\* a request without the header, one with a blank header and one whose header
\* starts with a comma use up one quota, the last of them refused, while a
\* request with an address in its header is allowed at the same time
C26_Witness ==
    \E i, j, k, l \in DOMAIN rateLimitLog :
        /\ i < k /\ j < k
        /\ rateLimitLog[i].header = NoHeader
        /\ rateLimitLog[j].header = Header(<<" ">>)
        /\ rateLimitLog[k].header = Header(<<",", "a">>)
        /\ ~rateLimitLog[k].allowed
        /\ rateLimitLog[l].header = Header(<<"a", ",", "x">>)
        /\ rateLimitLog[l].allowed
        /\ rateLimitLog[l].ip = <<"a">>
        /\ rateLimitLog[l].t = rateLimitLog[k].t

\* ------------------------------------------------------------------------ sweep

\* the cleanup interval fires in this step
SweepFires == nextSweep' # nextSweep

\* the client sent a request no longer than the window plus one period ago
HeardOfLately(k) ==
    \E i \in DOMAIN rateLimitLog :
        /\ rateLimitLog[i].ip = k
        /\ clock - rateLimitLog[i].t <= RATE_LIMIT_WINDOW_MS + SWEEP_INTERVAL_MS

\* C27: the sweep fires every period, at the time it is due, in a step that
\* belongs to no request; right after a sweep no ledger entry is empty and
\* every timestamp t of an entry has now - t < window; a client that has
\* sent no request for longer than the window plus one sweep period has no
\* entry in the ledger.
C27_Sweep ==
    /\ [](clock <= nextSweep)
    /\ [](\A k \in DOMAIN rateLimitMap : HeardOfLately(k))
    /\ [][SweepFires =>
             /\ clock = nextSweep
             /\ nextSweep' = nextSweep + SWEEP_INTERVAL_MS
             /\ req' = req /\ arrivals' = arrivals /\ rateLimitLog' = rateLimitLog
             /\ \A k \in DOMAIN rateLimitMap' :
                   /\ rateLimitMap'[k] # <<>>
                   /\ \A i \in DOMAIN rateLimitMap'[k] :
                         clock' - rateLimitMap'[k][i] < RATE_LIMIT_WINDOW_MS
       ]_vars

\* a client whose last request was late in a period kept its entry through
\* the sweep that followed, lost it at the next one, and has now been silent
\* for longer than the window plus one period
C27_Witness ==
    /\ rateLimitMap = <<>>
    /\ nextSweep = 3 * SWEEP_INTERVAL_MS
    /\ Len(rateLimitLog) > 0
    /\ \A i \in DOMAIN rateLimitLog :
          /\ rateLimitLog[i].allowed
          /\ SWEEP_INTERVAL_MS - rateLimitLog[i].t < RATE_LIMIT_WINDOW_MS
          /\ rateLimitLog[i].t < SWEEP_INTERVAL_MS
          /\ clock - rateLimitLog[i].t > RATE_LIMIT_WINDOW_MS + SWEEP_INTERVAL_MS

\* ---------------------------------------------------------------------- routing

\* the route table
RouteTable ==
    {<<"GET", "/health">>, <<"GET", "/status">>, <<"POST", "/query">>,
     <<"POST", "/">>, <<"GET", "/blocks/latest">>}

\* a request whose method and path match no route arrives in slot r
UnmatchedArrives(r) ==
    /\ req'[r] # req[r]
    /\ req'[r].method # "none"
    /\ <<req'[r].method, req'[r].path>> \notin RouteTable

\* the step answers the request of slot r with the 404 and its route list
Answers404(r) ==
    /\ req'[r].pc = "done"
    /\ req'[r].status = 404
    /\ req'[r].ctype = "application/json"
    /\ req'[r].respBody = <<"error", "endpoints">>

\* the step answers the request of slot r with 204 and no body
Answers204(r) ==
    /\ req'[r].pc = "done"
    /\ req'[r].status = 204
    /\ req'[r].ctype = "none"
    /\ req'[r].respBody = <<>>

\* the step of slot r touches neither ledger nor directory and calls nothing
TouchesNothing(r) ==
    /\ rateLimitMap' = rateLimitMap
    /\ rateLimitLog' = rateLimitLog
    /\ knownDatasets' = knownDatasets
    /\ datasetsLastFetched' = datasetsLastFetched
    /\ req'[r].sent = <<>>
    /\ req'[r].adminCalls = 0

WaitsOnNetwork(r) == req[r].pc \in {"upstream", "admin", "datasets", "jobs"}

\* slot r holds no request in flight
IsFree(r) == req[r].pc \in {"idle", "done"}

\* the answer of a request that needed no upstream call
AnsweredLocally(r) ==
    /\ req[r].pc = "done"
    /\ req[r].sent = <<>>
    /\ req[r].adminCalls = 0

\* a request can arrive now and be answered in the step that receives it,
\* while the requests of the other slots stay as they are: an unknown route,
\* an invalid dataset identifier
CanAnswerAtOnce ==
    \E r \in Slots :
        /\ ENABLED (/\ Accepts(r)
                    /\ HandleUnrouted(r, {"GET"}, {"/query"})
                    /\ req'[r].status = 404
                    /\ \A q \in Slots \ {r} : req'[q] = req[q])
        /\ ENABLED (/\ Accepts(r)
                    /\ HandleLatestStart(r, {Param(<<"\"">>)})
                    /\ req'[r].status = 400
                    /\ \A q \in Slots \ {r} : req'[q] = req[q])

\* a POST /query can arrive now and pass or fail the rate limiter in the step
\* that receives it
CanAdmitQuery ==
    \E r \in Slots :
        ENABLED (/\ Accepts(r)
                 /\ HandleQueryStart(r, {NoHeader}, LiveBodies)
                 /\ req'[r].pc \in {"body", "done"}
                 /\ \A q \in Slots \ {r} : req'[q] = req[q])

\* the request of slot r, its body read, can go on by a step of its own
CanReadBody(r) ==
    ENABLED (/\ HandleQueryBody(r)
             /\ \A q \in Slots \ {r} : req'[q] = req[q])

\* C29: while requests wait for upstream replies that have not arrived, a
\* request that arrives into a free slot is received, answered in that step
\* when it is for an unknown route or an invalid dataset, admitted or refused
\* by the rate limiter in that step when it is a query; and a query whose
\* body has been read goes on, all by steps that change no waiting request.
C29_NoBlocking ==
    /\ ((\E q \in Slots : WaitsOnNetwork(q))
         /\ (\E r \in Slots : IsFree(r))
         /\ arrivals < MaxArrivals)
        => CanAnswerAtOnce /\ CanAdmitQuery
    /\ \A r \in Slots :
          (req[r].pc = "body" /\ \E q \in Slots \ {r} : WaitsOnNetwork(q))
          => CanReadBody(r)

\* a query waits for the indexer while a query that arrived after it has been
\* refused by the rate limiter, and while a request for an invalid dataset
\* could be the next to arrive
C29_Witness ==
    \E r1, r2 \in Slots :
        /\ req[r1].route = "query" /\ req[r1].pc = "upstream"
        /\ req[r2].route = "query" /\ AnsweredLocally(r2)
        /\ req[r2].status = 429
        /\ req[r2].call > req[r1].call
        /\ arrivals < MaxArrivals

\* --------------------------------------------------------------------- liveness

\* a request of slot r is in flight
InFlight(r) == req[r].pc \notin {"idle", "done"}

\* the response of a request
HasResponse(r) == req[r].pc = "done" /\ req[r].status # 0

\* C30: when every upstream call returns or fails in the end, every request
\* on every route, also one that arrives after another request failed, gets
\* a response; the response of a request is written once: it stays as it is
\* until another request takes the connection.
C30_RequestScoped ==
    /\ \A r \in Slots : InFlight(r) ~> HasResponse(r)
    /\ [][\A r \in Slots :
             (req[r].pc = "done" /\ req'[r] # req[r])
             => arrivals' = arrivals + 1]_vars
    /\ [](\A r \in Slots : req[r].pc = "done" => req[r].status # 0)

\* a query is answered by the indexer after an earlier query on the same
\* connection ended in an uncaught exception and a request on the other
\* connection failed upstream
C30_Witness ==
    \E r1, r2 \in Slots :
        /\ req[r1].route = "query" /\ req[r1].status = 200
        /\ req[r1].call > 1
        /\ \E i \in DOMAIN rateLimitLog : i < req[r1].call
        /\ req[r2].pc = "done" /\ req[r2].status \in {500, 502}
        /\ arrivals >= 3

\* ------------------------------------------------------------ quota consumption

\* the times of the allowed calls of client k that are in the window now
AllowedInWindow(k) ==
    LET calls == SelectSeq(rateLimitLog,
                     LAMBDA e : /\ e.ip = k /\ e.allowed
                                /\ clock - e.t < RATE_LIMIT_WINDOW_MS)
    IN [i \in 1..Len(calls) |-> calls[i].t]

\* the timestamps the ledger holds for client k that are in the window now
HeldInWindow(k) ==
    IF k \in DOMAIN rateLimitMap
    THEN SelectSeq(rateLimitMap[k], LAMBDA t : clock - t < RATE_LIMIT_WINDOW_MS)
    ELSE <<>>

\* C31: a POST /query request is answered 429 exactly when rateLimit refused
\* it; every request that passed, whether it is then answered 200, 400, 413,
\* 403 or 502, keeps its timestamp in its client's ledger entry for as long
\* as the window holds it: the timestamps of the window are those of the
\* client's allowed requests, one each.
C31_QuotaConsumed ==
    \A r \in QuerySlots :
        LET e == rateLimitLog[req[r].call]
        IN /\ req[r].status = 429 <=> ~e.allowed
           /\ (req[r].pc = "done" /\ req[r].status \in {200, 400, 413, 403, 502})
                => /\ e.allowed
                   /\ HeldInWindow(e.ip) = AllowedInWindow(e.ip)
                   /\ clock - e.t < RATE_LIMIT_WINDOW_MS
                        => \E i \in DOMAIN HeldInWindow(e.ip) :
                               HeldInWindow(e.ip)[i] = e.t

\* an oversized statement was refused 413 and its request holds a slot
C31_Witness ==
    \E r \in QuerySlots :
        /\ req[r].pc = "done"
        /\ req[r].status = 413
        /\ rateLimitLog[req[r].call].allowed
        /\ HeldInWindow(req[r].ip) = <<rateLimitLog[req[r].call].t>>

\* ---------------------------------------------------------- concurrent refreshes

\* the refresh of the request of slot r settles in this step and its result
\* is installed in the cache
InstallsRefresh(r) ==
    /\ req[r].pc = "admin"
    /\ req'[r].pc # "admin"
    /\ RefreshSucceeded(req'[r].adminReply)

\* C32: in every step datasetsLastFetched stays or grows, and a refresh whose
\* result is installed in the cache started no earlier than the refresh
\* whose result the cache holds.
C32_Claim ==
    [][/\ datasetsLastFetched' >= datasetsLastFetched
       /\ \A r \in Slots :
             InstallsRefresh(r) => req[r].now >= datasetsLastFetched
      ]_vars

\* ------------------------------------------------------- the directory stays full

\* the request of slot r found a populated directory and was not refused as
\* unknown
AcceptedAgainstDirectory(r) ==
    /\ req[r].route = "latest"
    /\ req[r].cached # {}
    /\ req[r].pc \in {"upstream", "done"}
    /\ req[r].error # "Unknown dataset"

\* C33: no step empties a populated directory, whatever the admin API
\* answers; a request that finds the directory populated is validated
\* against a non-empty set and is accepted only if that set holds its
\* identifier.
C33_StaysPopulated ==
    /\ [][knownDatasets # {} => knownDatasets' # {}]_vars
    /\ [](\A r \in Slots :
             AcceptedAgainstDirectory(r)
             => /\ req[r].datasets # {}
                /\ req[r].dataset \in req[r].datasets)

\* a request found the directory populated and stale, its refresh failed or
\* listed nothing, and it was refused as unknown against the set kept
C33_Witness ==
    \E r \in Slots :
        /\ req[r].route = "latest"
        /\ req[r].cached # {}
        /\ req[r].adminCalls = 1
        /\ req[r].adminReply.kind \in {"network_error", "ok"}
        /\ ~(req[r].adminReply.kind = "ok" /\ ListedNames(req[r].adminReply.data) # {})
        /\ knownDatasets = req[r].cached
        /\ req[r].error = "Unknown dataset"

\* ------------------------------------------------------------ interpolated names

\* the names the request of slot r can have put into a marker statement: its
\* dataset parameter and the names of the set refreshDatasets returned to it
NamesInReach(r) == req[r].datasets \cup {req[r].dataset}

\* C34: every dataset name in a MAX(block_num) statement that GET /health or
\* GET /blocks/latest has sent matches ^[A-Za-z_][A-Za-z0-9_]*$, whatever
\* names the admin API listed.
C34_Claim ==
    \A r \in Slots :
        req[r].route \in {"health", "latest"}
        => \A D \in NamesInReach(r) :
               (\E i \in DOMAIN req[r].sent : req[r].sent[i] = StatementFor(D))
               => MatchesIdPattern(D)

\* --------------------------------------------------------------- ledger entries

\* a request of client k was allowed
WasAllowed(k) ==
    \E i \in DOMAIN rateLimitLog : rateLimitLog[i].ip = k /\ rateLimitLog[i].allowed

\* C35: every entry of the rate-limit ledger is a non-empty list of at most
\* RATE_LIMIT_MAX timestamps in non-decreasing order, and only a client with
\* an allowed request has an entry.
C35_EntryShape ==
    \A k \in DOMAIN rateLimitMap :
        /\ rateLimitMap[k] # <<>>
        /\ Len(rateLimitMap[k]) <= RATE_LIMIT_MAX
        /\ \A i, j \in DOMAIN rateLimitMap[k] :
              i < j => rateLimitMap[k][i] <= rateLimitMap[k][j]
        /\ WasAllowed(k)

\* one client's entry is full with timestamps of two different times, after
\* an older timestamp of it was pruned, and another client's entry is gone
C35_Witness ==
    \E k \in DOMAIN rateLimitMap :
        /\ Len(rateLimitMap[k]) = RATE_LIMIT_MAX
        /\ rateLimitMap[k][1] < rateLimitMap[k][RATE_LIMIT_MAX]
        /\ \E i \in DOMAIN rateLimitLog :
              /\ rateLimitLog[i].allowed
              /\ \/ rateLimitLog[i].ip \notin DOMAIN rateLimitMap
                 \/ /\ rateLimitLog[i].ip = k
                    /\ rateLimitLog[i].t < rateLimitMap[k][1]

\* ------------------------------------------------------ the sweep is not observed

\* the ledger after the first n calls of the log, run with no sweep between
\* them
RECURSIVE LedgerWithoutSweeps(_)
LedgerWithoutSweeps(n) ==
    IF n = 0 THEN <<>>
    ELSE LET before == LedgerWithoutSweeps(n - 1)
             e == rateLimitLog[n]
             stored == IF e.ip \in DOMAIN before THEN before[e.ip] ELSE <<>>
             inWindow == SelectSeq(stored, LAMBDA t : e.t - t < RATE_LIMIT_WINDOW_MS)
         IN IF Len(inWindow) >= RATE_LIMIT_MAX THEN before
            ELSE [k \in DOMAIN before \cup {e.ip} |->
                     IF k = e.ip THEN Append(inWindow, e.t) ELSE before[k]]

\* the decision of call n in the run with no sweep
AllowedWithoutSweeps(n) ==
    LET before == LedgerWithoutSweeps(n - 1)
        e == rateLimitLog[n]
        stored == IF e.ip \in DOMAIN before THEN before[e.ip] ELSE <<>>
    IN Len(SelectSeq(stored, LAMBDA t : e.t - t < RATE_LIMIT_WINDOW_MS)) < RATE_LIMIT_MAX

\* C36: with sweeps run at any points between the calls, every rateLimit
\* call decides as it does in the run of the same calls at the same times
\* with no sweep.
C36_SweepInvisible ==
    \A n \in DOMAIN rateLimitLog :
        rateLimitLog[n].allowed <=> AllowedWithoutSweeps(n)

\* a sweep has removed what the run with no sweep still holds, calls were
\* made at the time of the sweep, one of them refused
C36_Witness ==
    /\ rateLimitMap # LedgerWithoutSweeps(Len(rateLimitLog))
    /\ \E n \in DOMAIN rateLimitLog :
          /\ rateLimitLog[n].t = clock
          /\ ~rateLimitLog[n].allowed
    /\ \E n \in DOMAIN rateLimitLog : clock - rateLimitLog[n].t >= RATE_LIMIT_WINDOW_MS

\* ------------------------------------------------------------- the marker value

\* the value of the latest field of a row: the numbers 5 and 0, the numeric
\* string "7", null
ValueOfRow(row) ==
    CASE row = <<"ROW5">> -> "5"
      [] row = <<"ROW0">> -> "0"
      [] row = <<"ROWSTR7">> -> "7"
      [] OTHER -> "null"

\* what the claim has the gateway report for a 2xx answer of the indexer
ValueOfAnswer(reply) ==
    LET rows == QueryAmpJson(reply.body).rows
    IN IF rows = <<>> THEN "null" ELSE ValueOfRow(rows[1])

\* the indexer answered 2xx with lines that parse
Answered(reply) == reply.kind = "ok" /\ ~QueryAmpJson(reply.body).threw

\* C37: GET /blocks/latest reports as latestBlock, and GET /health reports
\* for the dataset, the value v of the latest field of the first row the
\* indexer returned, for the numbers and numeric strings v >= 0, 0 included;
\* null is reported only for no row or a null latest.
C37_Claim ==
    \A r \in Slots :
        /\ (req[r].route = "latest" /\ req[r].pc = "done" /\ Answered(req[r].reply))
              => req[r].latestBlock = ValueOfAnswer(req[r].reply)
        /\ req[r].route = "health"
              => \A d \in DOMAIN req[r].got :
                     Answered(req[r].got[d])
                     => req[r].markers[d] = ValueOfAnswer(req[r].got[d])

====
